---- MODULE Spec2Model ----
(***************************************************************************)
(* Model of the protein-language-model notebooks:                          *)
(*   - the tokenization / label-matrix step of the two fine-tuning         *)
(*     notebooks (tokenize_data, preprocess_data, the decode example),     *)
(*   - the cells of the localization notebook, run top to bottom,          *)
(*   - the handlers of the ESMFold inference script (model_fn, input_fn,   *)
(*     predict_fn, output_fn).                                             *)
(***************************************************************************)
EXTENDS Integers, Sequences, FiniteSets, TLC

VARIABLES
    \* ---- tokenization / encoding step
    nb,          \* which notebook's map function the batch is for: "oas" | "loc"
    examples,    \* the batch handed to the map function: column name -> list of values
    columns,     \* examples.keys(): the batch's column names in order
    features,    \* dataset["train"].features.keys(): the dataset's column order
    labels,      \* the global list `labels`
    max_length,  \* sequence_length (tokenize_data) / max_length (preprocess_data)
    encoding,    \* the value the map function returned, or NoEncoding
    decoded,     \* tokenizer.decode(example["input_ids"]), or NotDecoded
    mapped,      \* the rows the workers of dataset.map have written: record -> row
    epc,         \* "ready" | "encoded" | "decoded", or "map" while the workers run
    \* ---- globals of the fine-tuning notebooks and what they hold at the services
    source,          \* the rows read by pd.read_csv: row index -> sequence length
    df,              \* the index of the data frame df
    train,           \* the index of train / val / test
    val,
    test,
    store,           \* the objects save_to_disk has written to S3
    metric_definitions, \* the global metric_definitions
    hyperparameters, \* the global hyperparameters
    estimator,       \* huggingface_estimator_g5_3b
    jobs,            \* the training jobs submitted to the service
    predictor,       \* the global predictor
    endpoints,       \* the endpoints that exist at the service
    deletions,       \* the endpoints whose deletion was requested
    errors,          \* the exceptions cells ended with
    reported,        \* what cells printed about a failure
    lpc,             \* the next cell of the localization notebook
    \* ---- cells of the domain-adaptation notebook
    trn1_estimator,  \* the global trn1_estimator
    p4_estimator,    \* the global p4_estimator
    opc,             \* the next cell of the domain-adaptation notebook
    \* ---- cells of the ESMFold notebook
    experimental_sequence, \* the sequence of chain B
    files,           \* the files written under data/: path -> content
    tool,            \* whether the external alignment tool can be run
    nb_cuda,         \* torch.cuda.is_available() in the notebook's kernel
    model,           \* the configuration of the global model
    notebook_prediction, \* the global notebook_prediction
    endpoint_prediction, \* the global endpoint_prediction
    score,           \* the global score
    invocations,     \* the runs of the external alignment tool
    fpc,             \* the next cell of the ESMFold notebook
    \* ---- the inference script behind the ESMFold endpoint
    cuda,            \* torch.cuda.is_available() in the container
    request,         \* the request: body, content type, accepted response type
    tokenizer_model, \* what model_fn returned
    input_data,      \* what input_fn returned
    prediction,      \* what predict_fn returned
    response,        \* what output_fn returned
    fault,           \* the exception a library call failed with inside the last handler
    raised,          \* the exception the last handler raised to its caller
    trace,           \* the library calls, log entries and exits of the last handler
    ipc              \* the next handler to run

encVars == <<nb, examples, columns, features, labels, max_length, encoding, decoded,
             mapped, epc>>

locVars == <<source, df, train, val, test, store, metric_definitions, hyperparameters,
             estimator, jobs, predictor, endpoints, deletions, errors, reported, lpc>>

oasVars == <<trn1_estimator, p4_estimator, opc>>

foldVars == <<experimental_sequence, files, tool, nb_cuda, model, notebook_prediction,
              endpoint_prediction, score, invocations, fpc>>

infVars == <<cuda, request, tokenizer_model, input_data, prediction, response,
             fault, raised, trace, ipc>>

vars == <<encVars, locVars, infVars, oasVars, foldVars>>

\* what the cells of one notebook leave alone
notEncode == <<locVars, infVars, oasVars, foldVars>>
notLoc == <<encVars, infVars, oasVars, foldVars>>
notInfer == <<encVars, locVars, oasVars, foldVars>>
notOas == <<encVars, infVars, foldVars, source, df, train, val, test, estimator,
            predictor, endpoints, deletions, reported, lpc>>
notFold == <<encVars, oasVars, source, df, train, val, test, store, metric_definitions,
             hyperparameters, estimator, jobs, reported, lpc,
             request, input_data, prediction, response, fault, raised, trace, ipc>>

----------------------------------------------------------------------------
(* Bounds *)

MaxSeqLen == 4      \* longest text of a batch of the domain-adaptation notebook
MaxLocSeqLen == 2   \* longest text of a batch of the localization notebook
MaxL == 4           \* largest maximum length L; the smallest is 3
NumRows == 4        \* rows of the localization data set
SplitRows == 8      \* rows of the data set whose split is examined

----------------------------------------------------------------------------
(* Small helpers *)

Min(a, b) == IF a < b THEN a ELSE b
Max(a, b) == IF a > b THEN a ELSE b
Range(s) == {s[i] : i \in 1..Len(s)}
SeqsUpTo(S, n) == UNION {[1..k -> S] : k \in 0..n}

RECURSIVE Filter(_, _)
\* the entries of s, in order, that are in the set S (a list comprehension)
Filter(s, S) ==
    IF s = <<>> THEN <<>>
    ELSE (IF Head(s) \in S THEN <<Head(s)>> ELSE <<>>) \o Filter(Tail(s), S)

\* the values of the notebook's globals before the cell that binds them
Unbound == "(unbound)"
NoHyperparameters == [k \in {} |-> 0]
NoEstimator == [base_job_name |-> Unbound]
NoIndex == {-1}
NoMetricDefinitions == <<>>
NoFiles == [path \in {} |-> <<>>]
NoPdb == <<"(unbound)">>
NoScore == -1
NoRows == [r \in {} |-> 0]

\* the values of the inference script's results before a handler returns them
NoException == [type |-> "none", msg |-> "", arg |-> ""]
NoRequest == [body |-> <<>>, content_type |-> "", accept |-> ""]
NoModel == [device |-> Unbound]
NoValue == [type |-> "none"]
NoPrediction == [aatype |-> <<>>, residue_index |-> <<>>, positions |-> <<>>]

\* a notebook that is not run
IdleOas ==
    /\ trn1_estimator = NoEstimator
    /\ p4_estimator = NoEstimator
    /\ opc = "idle"

IdleFold ==
    /\ experimental_sequence = <<>>
    /\ files = NoFiles
    /\ tool = "available"
    /\ nb_cuda = FALSE
    /\ model = NoModel
    /\ notebook_prediction = NoPdb
    /\ endpoint_prediction = NoPdb
    /\ score = NoScore
    /\ invocations = <<>>
    /\ fpc = "idle"

----------------------------------------------------------------------------
(* The ESM tokenizer, as the notebooks call it *)

\* The head of the ESM-2 vocabulary: index - 1 is the token id.
all_tokens == <<"<cls>", "<pad>", "<eos>", "<unk>", "L", "A", "G", "V">>

cls_token_id == 0
pad_token_id == 1
eos_token_id == 2
unk_token_id == 3

\* The symbols a sequence is drawn from: "A" is in the vocabulary, "J" is not.
Alphabet == {"A", "J"}

InVocab(sym) == \E i \in 1..Len(all_tokens) : all_tokens[i] = sym

RECURSIVE tokenize(_)
\* tokenizer.tokenize: every vocabulary symbol is a token of its own; a maximal
\* run of symbols outside the vocabulary stays together as one token.
\* (The text is split in halves, so that texts of some hundred symbols are
\* tokenized at a depth of some ten calls; a run that spans the cut is joined.)
tokenize(text) ==
    IF Len(text) = 0 THEN <<>>
    ELSE IF Len(text) = 1 THEN <<text>>
    ELSE LET h == Len(text) \div 2
             left == tokenize(SubSeq(text, 1, h))
             right == tokenize(SubSeq(text, h + 1, Len(text)))
         IN IF ~InVocab(text[h]) /\ ~InVocab(text[h + 1])
            THEN SubSeq(left, 1, Len(left) - 1)
                   \o <<left[Len(left)] \o right[1]>> \o Tail(right)
            ELSE left \o right

\* convert_tokens_to_ids: the vocabulary index, or the unknown id
convert_token_to_idMutUnknownAsPad(tok) ==
    IF Len(tok) = 1 /\ InVocab(tok[1])
    THEN (CHOOSE i \in 1..Len(all_tokens) : all_tokens[i] = tok[1]) - 1
    ELSE pad_token_id
convert_token_to_id(tok) ==
    IF Len(tok) = 1 /\ InVocab(tok[1])
    THEN (CHOOSE i \in 1..Len(all_tokens) : all_tokens[i] = tok[1]) - 1
    ELSE unk_token_id

convert_id_to_token(id) == all_tokens[id + 1]

\* truncation=True, max_length=L: the ids are cut so that, with the two
\* control tokens, L entries remain
TruncateMutNoCut(ids, L) == ids
TruncateMutKeepL(ids, L) == SubSeq(ids, 1, Min(Len(ids), L))
Truncate(ids, L) == SubSeq(ids, 1, Min(Len(ids), L - 2))

\* build_inputs_with_special_tokens: <cls> ids <eos>
BuildInputs(ids) == <<cls_token_id>> \o ids \o <<eos_token_id>>

\* padding="max_length": pad ids on the right up to L
PadMutLeft(ids, L) == [i \in 1..(Max(L, Len(ids)) - Len(ids)) |-> pad_token_id] \o ids
Pad(ids, L) == ids \o [i \in 1..(Max(L, Len(ids)) - Len(ids)) |-> pad_token_id]

\* the attention mask of the padded ids: 1 on the n real entries, 0 on padding
AttentionMaskMutAllOnes(n, L) == [i \in 1..Max(L, n) |-> 1]
AttentionMask(n, L) == [i \in 1..Max(L, n) |-> IF i <= n THEN 1 ELSE 0]

\* tokenizer(text, padding="max_length", truncation=True, max_length=L) on one text
EncodeOne(text, L) ==
    LET toks == tokenize(text)
        ids == [i \in 1..Len(toks) |-> convert_token_to_id(toks[i])]
        real == BuildInputs(Truncate(ids, L))
    IN [input_ids |-> Pad(real, L), attention_mask |-> AttentionMask(Len(real), L)]

\* the tokenizer on a batch of texts
TokenizerMutPadLongest(texts, L) ==
    LET longest == IF texts = <<>> THEN 0
                   ELSE Min(L, 2 + CHOOSE n \in 0..MaxSeqLen :
                              /\ \E r \in 1..Len(texts) : Len(tokenize(texts[r])) = n
                              /\ \A r \in 1..Len(texts) : Len(tokenize(texts[r])) <= n)
    IN [input_ids |-> [r \in 1..Len(texts) |-> EncodeOne(texts[r], longest).input_ids],
        attention_mask |-> [r \in 1..Len(texts) |-> EncodeOne(texts[r], longest).attention_mask]]
Tokenizer(texts, L) ==
    LET enc == [r \in 1..Len(texts) |-> EncodeOne(texts[r], L)]
    IN [input_ids |-> [r \in 1..Len(texts) |-> enc[r].input_ids],
        attention_mask |-> [r \in 1..Len(texts) |-> enc[r].attention_mask]]

\* tokenizer.decode(ids): the tokens of the ids, control tokens included
Decode(ids) == [i \in 1..Len(ids) |-> convert_id_to_token(ids[i])]

----------------------------------------------------------------------------
(* The label list and the map functions *)

NonLabelColumns == {"ACC", "Kingdom", "Membrane", "Sequence"}

\* labels = [label for label in features.keys() if label not in [...]]
LabelsOf(feats) == Filter(feats, Range(feats) \ NonLabelColumns)

\* id2label = {idx: label for idx, label in enumerate(labels)}
id2label(labs) == [idx \in 0..(Len(labs) - 1) |-> labs[idx + 1]]

\* label2id = {label: idx for idx, label in enumerate(labels)}: a label that
\* occurs more than once keeps its last index
label2idMutFromOne(labs) ==
    [label \in Range(labs) |->
       CHOOSE idx \in 1..Len(labs) :
          /\ labs[idx] = label
          /\ \A later \in (idx + 1)..Len(labs) : labs[later] # label]
label2id(labs) ==
    [label \in Range(labs) |->
       CHOOSE idx \in 0..(Len(labs) - 1) :
          /\ labs[idx + 1] = label
          /\ \A later \in (idx + 1)..(Len(labs) - 1) : labs[later + 1] # label]

\* tokenize_data(examples, tokenizer, sequence_length)
tokenize_data(ex, sequence_length) == Tokenizer(ex["text"], sequence_length)

\* labels_batch = {k: examples[k] for k in examples.keys() if k in labels}
LabelsBatch(ex, cols, labs) ==
    [k \in Range(cols) \cap Range(labs) |-> ex[k]]

\* labels_matrix[:, idx] = labels_batch[label], then .tolist()
LabelsMatrixMutBatchOrder(ex, cols, labs, n) ==
    LET inBatch == Filter(cols, Range(labs))
    IN [r \in 1..n |-> [idx \in 1..Len(labs) |-> ex[inBatch[idx]][r]]]
LabelsMatrix(ex, cols, labs, n) ==
    LET labels_batch == LabelsBatch(ex, cols, labs)
    IN [r \in 1..n |-> [idx \in 1..Len(labs) |-> labels_batch[labs[idx]][r]]]

\* preprocess_data(examples, max_length)
preprocess_data(ex, cols, labs, L) ==
    LET text == ex["Sequence"]
        enc == Tokenizer(text, L)
    IN [input_ids |-> enc.input_ids,
        attention_mask |-> enc.attention_mask,
        labels |-> LabelsMatrix(ex, cols, labs, Len(text))]

----------------------------------------------------------------------------
(* The encoding step as a state machine *)

NoEncoding == [input_ids |-> <<>>, attention_mask |-> <<>>, labels |-> <<>>]
NotDecoded == <<"(not decoded)">>

Records == {1, 2}
Texts(n) == [Records -> SeqsUpTo(Alphabet, n)]
LabelValues == [Records -> {0, 1}]

FeatureOrders ==
    { <<"ACC", "Sequence", "Membrane", "Cytoplasm", "Nucleus">>,
      <<"ACC", "Sequence", "Nucleus", "Membrane", "Cytoplasm">> }

Lengths == 3..MaxL

\* the batch, the label list and the maximum length the map function is given
Batch ==
    /\ nb \in {"oas", "loc"}
    /\ features \in FeatureOrders
    /\ labels = LabelsOf(features)
    /\ columns \in (IF nb = "oas" THEN {<<"text">>} ELSE FeatureOrders)
    /\ examples \in
         (IF nb = "oas"
          THEN {[c \in {"text"} |-> t] : t \in Texts(MaxSeqLen)}
          ELSE {[c \in Range(columns) |->
                   CASE c = "Sequence" -> t
                     [] c = "Cytoplasm" -> cy
                     [] c = "Nucleus" -> nu
                     [] c = "Membrane" -> [r \in Records |-> 1]
                     [] OTHER -> [r \in Records |-> "P0"]]
                 : t \in Texts(MaxLocSeqLen), cy \in LabelValues, nu \in LabelValues})
    /\ max_length \in Lengths

\* what the encoding step leaves alone
IdleOthers ==
    /\ IdleOas
    /\ IdleFold
    \* the localization notebook is not run
    /\ source = <<>>
    /\ df = NoIndex /\ train = NoIndex /\ val = NoIndex /\ test = NoIndex
    /\ store = {}
    /\ metric_definitions = NoMetricDefinitions
    /\ hyperparameters = NoHyperparameters
    /\ estimator = NoEstimator
    /\ jobs = <<>>
    /\ predictor = Unbound
    /\ endpoints = {}
    /\ deletions = {}
    /\ errors = <<>>
    /\ reported = <<>>
    /\ lpc = "idle"
    \* no endpoint serves the inference script
    /\ cuda = FALSE
    /\ request = NoRequest
    /\ tokenizer_model = NoModel
    /\ input_data = NoValue
    /\ prediction = NoPrediction
    /\ response = NoValue
    /\ fault = NoException
    /\ raised = NoException
    /\ trace = <<>>
    /\ ipc = "idle"

InitEncode ==
    /\ Batch
    /\ encoding = NoEncoding
    /\ decoded = NotDecoded
    /\ mapped = NoRows
    /\ epc = "ready"
    /\ IdleOthers

\* dataset.map(..., batched=True, num_proc=os.cpu_count()): the data set is cut
\* into contiguous shards, one per worker; a worker calls the map function on
\* the rows of its shard and writes the rows of the result
Shard(ex, first, last) == [c \in DOMAIN ex |-> SubSeq(ex[c], first, last)]

\* the row of record r in what the map function returned for a batch that
\* starts at record first
Row(result, first, r) ==
    [input_ids |-> result.input_ids[r - first + 1],
     attention_mask |-> result.attention_mask[r - first + 1],
     labels |-> IF result.labels = <<>> THEN <<>> ELSE result.labels[r - first + 1]]

\* the map function of the notebook on a batch
MapFunction(ex) ==
    IF nb = "oas"
    THEN LET result == tokenize_data(ex, max_length)
         IN [NoEncoding EXCEPT !.input_ids = result.input_ids,
                               !.attention_mask = result.attention_mask]
    ELSE preprocess_data(ex, columns, labels, max_length)

InitMap ==
    /\ Batch
    /\ encoding = NoEncoding
    /\ decoded = NotDecoded
    /\ mapped = NoRows
    /\ epc = "map"
    /\ IdleOthers

\* one worker of dataset.map processes its shard, the records first..last
MapShard ==
    /\ UNCHANGED notEncode
    /\ epc = "map"
    /\ \E first \in Records : \E last \in Records :
         /\ first <= last
         /\ (first..last) \cap DOMAIN mapped = {}
         /\ LET result == MapFunction(Shard(examples, first, last))
            IN mapped' = [r \in DOMAIN mapped \cup (first..last) |->
                            IF r \in DOMAIN mapped THEN mapped[r]
                            ELSE [order |-> Cardinality(DOMAIN mapped),
                                  row |-> Row(result, first, r)]]
    /\ UNCHANGED <<nb, examples, columns, features, labels, max_length, encoding,
                   decoded, epc>>

\* encoded_dataset is complete: the workers have written every row
MapDone ==
    /\ UNCHANGED notEncode
    /\ epc = "map"
    /\ DOMAIN mapped = Records
    /\ encoding' = [input_ids |-> [r \in Records |-> mapped[r].row.input_ids],
                    attention_mask |-> [r \in Records |-> mapped[r].row.attention_mask],
                    labels |-> IF nb = "oas" THEN <<>>
                               ELSE [r \in Records |-> mapped[r].row.labels]]
    /\ epc' = "mapped"
    /\ UNCHANGED <<nb, examples, columns, features, labels, max_length, decoded, mapped>>

NextMap == MapShard \/ MapDone

\* encoded_dataset = dataset.map(tokenize_data, batched=True, ...)
TokenizeData ==
    /\ UNCHANGED notEncode
    /\ epc = "ready" /\ nb = "oas"
    /\ encoding' = [NoEncoding EXCEPT
                      !.input_ids = tokenize_data(examples, max_length).input_ids,
                      !.attention_mask = tokenize_data(examples, max_length).attention_mask]
    /\ epc' = "encoded"
    /\ UNCHANGED <<nb, examples, columns, features, labels, max_length, decoded, mapped>>

\* encoded_dataset = dataset.map(preprocess_data, batched=True, ...)
PreprocessData ==
    /\ UNCHANGED notEncode
    /\ epc = "ready" /\ nb = "loc"
    /\ encoding' = preprocess_data(examples, columns, labels, max_length)
    /\ epc' = "encoded"
    /\ UNCHANGED <<nb, examples, columns, features, labels, max_length, decoded, mapped>>

\* example = encoded_dataset["train"][0]; print(tokenizer.decode(example["input_ids"]))
DecodeExample ==
    /\ UNCHANGED notEncode
    /\ epc = "encoded"
    /\ decoded' = Decode(encoding.input_ids[1])
    /\ epc' = "decoded"
    /\ UNCHANGED <<nb, examples, columns, features, labels, max_length, encoding, mapped>>

NextEncode == TokenizeData \/ PreprocessData \/ DecodeExample

----------------------------------------------------------------------------
(* The cells of the localization notebook *)

MinSequenceLength == 100
MaxSequenceLength == 512

\* the sequence lengths the rows of the csv are drawn from
RowLengths == {MinSequenceLength - 1, MinSequenceLength, 300,
               MaxSequenceLength, MaxSequenceLength + 1}

\* Series.between(left, right): both ends inclusive
BetweenMutExclusive(x, left, right) == left < x /\ x < right
Between(x, left, right) == left <= x /\ x <= right

\* Python round(num / den): half to even
Round(num, den) ==
    LET q == num \div den
        r == num % den
    IN IF 2 * r < den THEN q
       ELSE IF 2 * r > den THEN q + 1
       ELSE IF q % 2 = 0 THEN q ELSE q + 1

\* DataFrame.sample(frac=num/10): the index sets sample can return
SampleMutCeiling(index, num) ==
    {S \in SUBSET index : Cardinality(S) = (num * Cardinality(index) + 9) \div 10}
Sample(index, num) ==
    {S \in SUBSET index : Cardinality(S) = Round(num * Cardinality(index), 10)}

\* the hyperparameters of the cell, and what a user may put into the mapping
HyperparameterLiteral ==
    [epochs |-> 2, max_length |-> 512, model_id |-> "facebook/esm2_t36_3B_UR50D",
     num_labels |-> 10, problem_type |-> "multi_label_classification",
     per_device_train_batch_size |-> 2, per_device_eval_batch_size |-> 32,
     gradient_accumulation_steps |-> 16]

RecognizedKeys == DOMAIN HyperparameterLiteral
OtherKeys == {"unsupported_option", "lerning_rate"}

With(f, k, v) == [x \in DOMAIN f \cup {k} |-> IF x = k THEN v ELSE f[x]]

HyperparameterInputs ==
    {HyperparameterLiteral}
      \cup {With(HyperparameterLiteral, k, 1) : k \in OtherKeys}
      \cup {With(With(HyperparameterLiteral, "unsupported_option", 1), "lerning_rate", 1)}

\* metric_definitions = [...]: the names and the patterns of the metrics, each
\* pattern character by character
LocMetricDefinitionsMutBareLoss ==
    << [Name |-> "epoch",
        Regex |-> <<"'", "e", "p", "o", "c", "h", "'", ":", " ", "(", "[", "0", "-", "9", ".", "]", "*", ")">>],
       [Name |-> "train_loss",
        Regex |-> <<"l", "o", "s", "s", "'", ":", " ", "(", "[", "0", "-", "9", ".", "e", "-", "]", "*", ")">>],
       [Name |-> "learning_rate",
        Regex |-> <<"'", "l", "e", "a", "r", "n", "i", "n", "g", "_", "r", "a", "t", "e", "'", ":", " ", "(", "[", "0", "-", "9", ".", "e", "-", "]", "*", ")">>],
       [Name |-> "train_runtime",
        Regex |-> <<"'", "t", "r", "a", "i", "n", "_", "r", "u", "n", "t", "i", "m", "e", "'", ":", " ", "(", "[", "0", "-", "9", ".", "e", "-", "]", "*", ")">>],
       [Name |-> "train_samples_per_second",
        Regex |-> <<"'", "t", "r", "a", "i", "n", "_", "s", "a", "m", "p", "l", "e", "s", "_", "p", "e", "r", "_", "s", "e", "c", "o", "n", "d", "'", ":", " ", "(", "[", "0", "-", "9", ".", "e", "-", "]", "*", ")">>],
       [Name |-> "train_steps_per_second",
        Regex |-> <<"'", "t", "r", "a", "i", "n", "_", "s", "t", "e", "p", "s", "_", "p", "e", "r", "_", "s", "e", "c", "o", "n", "d", "'", ":", " ", "(", "[", "0", "-", "9", ".", "e", "-", "]", "*", ")">>],
       [Name |-> "eval_loss",
        Regex |-> <<"'", "e", "v", "a", "l", "_", "l", "o", "s", "s", "'", ":", " ", "(", "[", "0", "-", "9", ".", "e", "-", "]", "*", ")">>],
       [Name |-> "eval_accuracy",
        Regex |-> <<"'", "e", "v", "a", "l", "_", "a", "c", "c", "u", "r", "a", "c", "y", "'", ":", " ", "(", "[", "0", "-", "9", ".", "e", "-", "]", "*", ")">>],
       [Name |-> "eval_f1",
        Regex |-> <<"'", "e", "v", "a", "l", "_", "f", "1", "'", ":", " ", "(", "[", "0", "-", "9", ".", "e", "-", "]", "*", ")">>],
       [Name |-> "eval_roc_auc",
        Regex |-> <<"'", "e", "v", "a", "l", "_", "r", "o", "c", "_", "a", "u", "c", "'", ":", " ", "(", "[", "0", "-", "9", ".", "e", "-", "]", "*", ")">>],
       [Name |-> "eval_runtime",
        Regex |-> <<"'", "e", "v", "a", "l", "_", "r", "u", "n", "t", "i", "m", "e", "'", ":", " ", "(", "[", "0", "-", "9", ".", "e", "-", "]", "*", ")">>],
       [Name |-> "eval_samples_per_second",
        Regex |-> <<"'", "e", "v", "a", "l", "_", "s", "a", "m", "p", "l", "e", "s", "_", "p", "e", "r", "_", "s", "e", "c", "o", "n", "d", "'", ":", " ", "(", "[", "0", "-", "9", ".", "e", "-", "]", "*", ")">>],
       [Name |-> "eval_steps_per_second",
        Regex |-> <<"'", "e", "v", "a", "l", "_", "s", "t", "e", "p", "s", "_", "p", "e", "r", "_", "s", "e", "c", "o", "n", "d", "'", ":", " ", "(", "[", "0", "-", "9", ".", "e", "-", "]", "*", ")">>] >>
LocMetricDefinitions ==
    << [Name |-> "epoch",
        Regex |-> <<"'", "e", "p", "o", "c", "h", "'", ":", " ", "(", "[", "0", "-", "9", ".", "]", "*", ")">>],
       [Name |-> "train_loss",
        Regex |-> <<"'", "l", "o", "s", "s", "'", ":", " ", "(", "[", "0", "-", "9", ".", "e", "-", "]", "*", ")">>],
       [Name |-> "learning_rate",
        Regex |-> <<"'", "l", "e", "a", "r", "n", "i", "n", "g", "_", "r", "a", "t", "e", "'", ":", " ", "(", "[", "0", "-", "9", ".", "e", "-", "]", "*", ")">>],
       [Name |-> "train_runtime",
        Regex |-> <<"'", "t", "r", "a", "i", "n", "_", "r", "u", "n", "t", "i", "m", "e", "'", ":", " ", "(", "[", "0", "-", "9", ".", "e", "-", "]", "*", ")">>],
       [Name |-> "train_samples_per_second",
        Regex |-> <<"'", "t", "r", "a", "i", "n", "_", "s", "a", "m", "p", "l", "e", "s", "_", "p", "e", "r", "_", "s", "e", "c", "o", "n", "d", "'", ":", " ", "(", "[", "0", "-", "9", ".", "e", "-", "]", "*", ")">>],
       [Name |-> "train_steps_per_second",
        Regex |-> <<"'", "t", "r", "a", "i", "n", "_", "s", "t", "e", "p", "s", "_", "p", "e", "r", "_", "s", "e", "c", "o", "n", "d", "'", ":", " ", "(", "[", "0", "-", "9", ".", "e", "-", "]", "*", ")">>],
       [Name |-> "eval_loss",
        Regex |-> <<"'", "e", "v", "a", "l", "_", "l", "o", "s", "s", "'", ":", " ", "(", "[", "0", "-", "9", ".", "e", "-", "]", "*", ")">>],
       [Name |-> "eval_accuracy",
        Regex |-> <<"'", "e", "v", "a", "l", "_", "a", "c", "c", "u", "r", "a", "c", "y", "'", ":", " ", "(", "[", "0", "-", "9", ".", "e", "-", "]", "*", ")">>],
       [Name |-> "eval_f1",
        Regex |-> <<"'", "e", "v", "a", "l", "_", "f", "1", "'", ":", " ", "(", "[", "0", "-", "9", ".", "e", "-", "]", "*", ")">>],
       [Name |-> "eval_roc_auc",
        Regex |-> <<"'", "e", "v", "a", "l", "_", "r", "o", "c", "_", "a", "u", "c", "'", ":", " ", "(", "[", "0", "-", "9", ".", "e", "-", "]", "*", ")">>],
       [Name |-> "eval_runtime",
        Regex |-> <<"'", "e", "v", "a", "l", "_", "r", "u", "n", "t", "i", "m", "e", "'", ":", " ", "(", "[", "0", "-", "9", ".", "e", "-", "]", "*", ")">>],
       [Name |-> "eval_samples_per_second",
        Regex |-> <<"'", "e", "v", "a", "l", "_", "s", "a", "m", "p", "l", "e", "s", "_", "p", "e", "r", "_", "s", "e", "c", "o", "n", "d", "'", ":", " ", "(", "[", "0", "-", "9", ".", "e", "-", "]", "*", ")">>],
       [Name |-> "eval_steps_per_second",
        Regex |-> <<"'", "e", "v", "a", "l", "_", "s", "t", "e", "p", "s", "_", "p", "e", "r", "_", "s", "e", "c", "o", "n", "d", "'", ":", " ", "(", "[", "0", "-", "9", ".", "e", "-", "]", "*", ")">>] >>

\* S3_PATH = s3_path_join("s3://", S3_BUCKET, S3_PREFIX), and S3_PATH + suffix
S3_PATH(S3_PREFIX) == <<"s3://", "default-bucket", S3_PREFIX>>
S3Uri(S3_PREFIX, suffix) == Append(S3_PATH(S3_PREFIX), suffix)

\* Dataset.save_to_disk(uri): the data set is written under uri
save_to_diskMutOtherPath(objects, uri) ==
    objects \cup {Append(SubSeq(uri, 1, Len(uri) - 1), "/data/encoded")}
save_to_disk(objects, uri) == objects \cup {uri}

\* TrainingInput(s3_data=..., input_mode=...)
TrainingInput(s3_data, input_mode) == [s3_data |-> s3_data, input_mode |-> input_mode]

\* HuggingFace(..., hyperparameters=hyperparameters, ...): the estimator keeps
\* the mapping as it is given
HuggingFaceMutDropsUnknown(hp, md) ==
    [base_job_name |-> "esm-3B-loc-ft-lora",
     instance_type |-> "ml.g5.2xlarge",
     instance_count |-> 1,
     image |-> <<"transformers 4.28", "pytorch 2.0", "py310">>,
     hyperparameters |-> [k \in DOMAIN hp \cap RecognizedKeys |-> hp[k]],
     metric_definitions |-> md]
HuggingFace(hp, md) ==
    [base_job_name |-> "esm-3B-loc-ft-lora",
     instance_type |-> "ml.g5.2xlarge",
     instance_count |-> 1,
     image |-> <<"transformers 4.28", "pytorch 2.0", "py310">>,
     hyperparameters |-> hp,
     metric_definitions |-> md]

\* estimator.fit(inputs, ...): the request sent to the service; the job's name
\* is the base name and the time of the submission
TrainingJob(est, inputs, time) ==
    [job_name |-> <<est.base_job_name, time>>,
     instance_type |-> est.instance_type,
     instance_count |-> est.instance_count,
     image |-> est.image,
     hyperparameters |-> est.hyperparameters,
     metric_definitions |-> est.metric_definitions,
     inputs |-> inputs,
     status |-> "InProgress"]

\* the states a training job ends in
TerminalStatuses == {"Completed", "Failed", "Stopped"}

\* CreateTrainingJob: the service holds one more job
SubmitMutByBaseName(js, job) ==
    IF \E j \in 1..Len(js) : js[j].job_name[1] = job.job_name[1]
    THEN [j \in 1..Len(js) |-> IF js[j].job_name[1] = job.job_name[1] THEN job ELSE js[j]]
    ELSE Append(js, job)
Submit(js, job) == Append(js, job)

\* estimator.fit(inputs, wait=wait): the job is submitted; with wait=True fit
\* returns when the job has ended, and raises unless it has completed
Fit(est, inputs, time, wait, end) ==
    [job |-> [TrainingJob(est, inputs, time) EXCEPT
                !.status = IF wait THEN end ELSE "InProgress"],
     raised |-> IF wait /\ end # "Completed" THEN "UnexpectedStatusException" ELSE "none"]

\* what predictor.delete_endpoint() can end with at the service
DeleteOutcomes == {"deleted", "ClientError", "ConnectionError"}

\* try: predictor.delete_endpoint() / except: pass
\* the exception the cell ends with ("none": it ends normally)
\* a bare except clause handles every exception
ExceptMutClientErrorOnly(exc) == exc = "ClientError"
Except(exc) == TRUE

Teardown(pred, outcome) ==
    LET exc == IF pred = Unbound THEN "NameError"
               ELSE IF outcome = "deleted" THEN "none" ELSE outcome
    IN IF exc # "none" /\ Except(exc) THEN "none" ELSE exc

\* the notebook before its first cell, the csv apart
LocStart ==
    /\ df = NoIndex /\ train = NoIndex /\ val = NoIndex /\ test = NoIndex
    /\ store = {}
    /\ metric_definitions = NoMetricDefinitions
    /\ hyperparameters = NoHyperparameters
    /\ estimator = NoEstimator
    /\ jobs = <<>>
    /\ predictor = Unbound
    /\ endpoints = {}
    /\ deletions = {}
    /\ errors = <<>>
    /\ reported = <<>>
    /\ lpc = "split"
    \* no batch is encoded
    /\ nb = "none"
    /\ features = <<>> /\ labels = <<>> /\ columns = <<>>
    /\ examples = <<>>
    /\ max_length = 0
    /\ encoding = NoEncoding
    /\ decoded = NotDecoded
    /\ mapped = NoRows
    /\ epc = "idle"
    /\ IdleOas
    /\ IdleFold
    \* no endpoint serves the inference script
    /\ cuda = FALSE
    /\ request = NoRequest
    /\ tokenizer_model = NoModel
    /\ input_data = NoValue
    /\ prediction = NoPrediction
    /\ response = NoValue
    /\ fault = NoException
    /\ raised = NoException
    /\ trace = <<>>
    /\ ipc = "idle"

InitLoc ==
    /\ source \in [1..NumRows -> RowLengths]
    /\ LocStart

\* a csv with rows enough for a validation set
InitSplit ==
    /\ source \in [1..SplitRows -> {MinSequenceLength - 1, MaxSequenceLength}]
    /\ LocStart

\* df = pd.read_csv(...); df = df[...between(100, 512)]; train / val / test
SplitCell ==
    /\ UNCHANGED notLoc
    /\ lpc = "split"
    /\ LET filtered == {i \in DOMAIN source :
                          Between(source[i], MinSequenceLength, MaxSequenceLength)}
       IN \E tr \in Sample(filtered, 8) :
            \E va \in Sample(filtered \ tr, 5) :
               /\ train' = tr
               /\ val' = va
               /\ test' = (filtered \ tr) \ va
               /\ df' = filtered \ tr
    /\ lpc' = "upload"
    /\ UNCHANGED <<source, store, metric_definitions, hyperparameters, estimator, jobs,
                   predictor, endpoints, deletions, errors, reported>>

\* encoded_dataset["train" | "test" | "validation"].save_to_disk(S3_PATH + ...)
UploadCell ==
    /\ UNCHANGED notLoc
    /\ lpc = "upload"
    /\ store' = save_to_disk(save_to_disk(save_to_disk(store,
                    S3Uri("esm-loc-ft", "/data/train")),
                    S3Uri("esm-loc-ft", "/data/test")),
                    S3Uri("esm-loc-ft", "/data/validation"))
    /\ lpc' = "metrics"
    /\ UNCHANGED <<source, df, train, val, test, metric_definitions, hyperparameters,
                   estimator, jobs, predictor, endpoints, deletions, errors, reported>>

\* metric_definitions = [...]
MetricsCell ==
    /\ UNCHANGED notLoc
    /\ lpc = "metrics"
    /\ metric_definitions' = LocMetricDefinitions
    /\ lpc' = "estimator"
    /\ UNCHANGED <<source, df, train, val, test, store, hyperparameters,
                   estimator, jobs, predictor, endpoints, deletions, errors, reported>>

\* hyperparameters = {...}; huggingface_estimator_g5_3b = HuggingFace(...)
EstimatorCell ==
    /\ UNCHANGED notLoc
    /\ lpc = "estimator"
    /\ \E hp \in HyperparameterInputs :
         /\ hyperparameters' = hp
         /\ estimator' = HuggingFace(hp, metric_definitions)
    /\ lpc' = "fit"
    /\ UNCHANGED <<source, df, train, val, test, store, metric_definitions, jobs,
                   predictor, endpoints, deletions, errors, reported>>

\* huggingface_estimator_g5_3b.fit({"train": ..., "test": ...}, wait=False)
FitCell ==
    /\ UNCHANGED notLoc
    /\ lpc = "fit"
    /\ jobs' = Submit(jobs, Fit(estimator,
                        [train |-> TrainingInput(S3Uri("esm-loc-ft", "/data/train"), "File"),
                         test |-> TrainingInput(S3Uri("esm-loc-ft", "/data/test"), "File")],
                        Len(jobs) + 1, FALSE, "Completed").job)
    /\ lpc' = "deploy"
    /\ UNCHANGED <<source, df, train, val, test, store, metric_definitions,
                   hyperparameters, estimator, predictor, endpoints, deletions, errors, reported>>

\* the service runs a submitted job to its end
JobEnds ==
    /\ UNCHANGED notLoc
    /\ lpc # "idle"
    /\ \E j \in 1..Len(jobs) : \E end \in TerminalStatuses :
         /\ jobs[j].status = "InProgress"
         /\ jobs' = [jobs EXCEPT ![j].status = end]
    /\ UNCHANGED <<source, df, train, val, test, store, metric_definitions,
                   hyperparameters, estimator, predictor, endpoints, deletions, errors, reported, lpc>>

\* huggingface_model = HuggingFaceModel(...); predictor = huggingface_model.deploy(...)
\* The arguments of deploy lack a comma (instance_type="ml.g5.2xlarge"
\* role=...): the cell is no valid Python and ends with a SyntaxError before
\* any of it runs.
DeployCell ==
    /\ UNCHANGED notLoc
    /\ lpc = "deploy"
    /\ errors' = Append(errors, [cell |-> "deploy", exc |-> "SyntaxError"])
    /\ lpc' = "predict"
    /\ UNCHANGED <<source, df, train, val, test, store, metric_definitions,
                   hyperparameters, estimator, jobs, predictor, endpoints, deletions, reported>>

\* predictor.predict(sample)
PredictCell ==
    /\ UNCHANGED notLoc
    /\ lpc = "predict"
    /\ \E outcome \in {"none", "ModelError"} :
         LET exc == IF predictor = Unbound THEN "NameError" ELSE outcome
         IN errors' = IF exc = "none" THEN errors
                      ELSE Append(errors, [cell |-> "predict", exc |-> exc])
    /\ lpc' = "teardown"
    /\ UNCHANGED <<source, df, train, val, test, store, metric_definitions,
                   hyperparameters, estimator, jobs, predictor, endpoints, deletions, reported>>

\* try: predictor.delete_endpoint() / except: pass
TeardownCell ==
    /\ UNCHANGED notLoc
    /\ lpc = "teardown"
    /\ \E outcome \in DeleteOutcomes :
         /\ errors' = IF Teardown(predictor, outcome) = "none" THEN errors
                      ELSE Append(errors, [cell |-> "teardown",
                                           exc |-> Teardown(predictor, outcome)])
         /\ endpoints' = IF predictor # Unbound /\ outcome = "deleted"
                         THEN endpoints \ {predictor} ELSE endpoints
    /\ deletions' = IF predictor # Unbound THEN deletions \cup {predictor} ELSE deletions
    /\ lpc' = "done"
    /\ UNCHANGED <<source, df, train, val, test, store, metric_definitions,
                   hyperparameters, estimator, jobs, predictor, reported>>

NextLoc ==
    SplitCell \/ UploadCell \/ MetricsCell \/ EstimatorCell \/ FitCell \/ JobEnds
       \/ DeployCell \/ PredictCell \/ TeardownCell

----------------------------------------------------------------------------
(* The cells of the domain-adaptation notebook *)

\* metric_definitions = [...]: the same list in the three cells that bind it
OasMetricDefinitions ==
    << [Name |-> "epoch",
        Regex |-> <<"E", "p", "o", "c", "h", ":", " ", "(", "[", "0", "-", "9", ".", "]", "*", ")">>],
       [Name |-> "step",
        Regex |-> <<"S", "t", "e", "p", ":", " ", "(", "[", "0", "-", "9", ".", "]", "*", ")">>],
       [Name |-> "train_loss",
        Regex |-> <<"T", "r", "a", "i", "n", "i", "n", "g", " ", "L", "o", "s", "s", ":", " ", "(", "[", "0", "-", "9", ".", "e", "-", "]", "*", ")">>],
       [Name |-> "train_perplexity",
        Regex |-> <<"T", "r", "a", "i", "n", "i", "n", "g", " ", "P", "e", "r", "p", "l", "e", "x", "i", "t", "y", ":", " ", "(", "[", "0", "-", "9", ".", "e", "-", "]", "*", ")">>],
       [Name |-> "train_samples_per_second",
        Regex |-> <<"T", "r", "a", "i", "n", "i", "n", "g", " ", "S", "a", "m", "p", "l", "e", "s", "/", "s", "e", "c", ":", " ", "(", "[", "0", "-", "9", ".", "e", "-", "]", "*", ")">>],
       [Name |-> "train_tokens_per_second",
        Regex |-> <<"T", "r", "a", "i", "n", "i", "n", "g", " ", "T", "o", "k", "e", "n", "s", "/", "s", "e", "c", ":", " ", "(", "[", "0", "-", "9", ".", "e", "-", "]", "*", ")">>],
       [Name |-> "eval_loss",
        Regex |-> <<"E", "v", "a", "l", " ", "L", "o", "s", "s", ":", " ", "(", "[", "0", "-", "9", ".", "e", "-", "]", "*", ")">>],
       [Name |-> "eval_perplexity",
        Regex |-> <<"E", "v", "a", "l", " ", "P", "e", "r", "p", "l", "e", "x", "i", "t", "y", ":", " ", "(", "[", "0", "-", "9", ".", "e", "-", "]", "*", ")">>],
       [Name |-> "eval_samples_per_second",
        Regex |-> <<"E", "v", "a", "l", " ", "S", "a", "m", "p", "l", "e", "s", "/", "s", "e", "c", ":", " ", "(", "[", "0", "-", "9", ".", "e", "-", "]", "*", ")">>],
       [Name |-> "eval_tokens_per_second",
        Regex |-> <<"E", "v", "a", "l", " ", "T", "o", "k", "e", "n", "s", "/", "s", "e", "c", ":", " ", "(", "[", "0", "-", "9", ".", "e", "-", "]", "*", ")">>] >>

MODEL_ID == "facebook/esm2_t6_8M_UR50D"

\* hyperparameters = {...} of the trn1, the g5 and the p4d cell
Trn1Hyperparameters ==
    [num_train_epochs |-> 2, model_id |-> MODEL_ID, per_device_train_batch_size |-> 2,
     per_device_eval_batch_size |-> 8, bf16 |-> TRUE, logging_steps |-> 8,
     optim |-> "adamw_torch", gradient_accumulation_steps |-> 4, device |-> "xla"]

G5Hyperparameters ==
    [num_train_epochs |-> 2, model_id |-> MODEL_ID, per_device_train_batch_size |-> 8,
     per_device_eval_batch_size |-> 8, bf16 |-> TRUE, logging_steps |-> 8,
     optim |-> "adamw_torch", pretrain |-> 1, train_sample_count |-> 10000]

P4dHyperparameters ==
    [num_train_epochs |-> 2, model_id |-> MODEL_ID, per_device_train_batch_size |-> 8,
     per_device_eval_batch_size |-> 8, bf16 |-> TRUE, logging_steps |-> 8,
     optim |-> "adamw_torch"]

\* a cell's mapping as it is, or with a key a user added
Edited(literal) == {literal} \cup {With(literal, k, 1) : k \in OtherKeys}

\* PyTorch(base_job_name=..., instance_type=..., instance_count=..., image_uri=...,
\*         hyperparameters=..., metric_definitions=..., ...)
PyTorch(base_job_name, instance_type, instance_count, image_uri, hp, md) ==
    [base_job_name |-> base_job_name,
     instance_type |-> instance_type,
     instance_count |-> instance_count,
     image |-> <<image_uri>>,
     hyperparameters |-> hp,
     metric_definitions |-> md]

\* the inputs of the three fit calls
OasInputs ==
    [train |-> TrainingInput(S3Uri("esm-2-benchmarking", "/data/train"), "FastFile"),
     test |-> TrainingInput(S3Uri("esm-2-benchmarking", "/data/test"), "FastFile")]

InitOas ==
    /\ store = {}
    /\ metric_definitions = NoMetricDefinitions
    /\ hyperparameters = NoHyperparameters
    /\ trn1_estimator = NoEstimator
    /\ p4_estimator = NoEstimator
    /\ jobs = <<>>
    /\ errors = <<>>
    /\ opc = "upload"
    \* the localization notebook is not run
    /\ source = <<>>
    /\ df = NoIndex /\ train = NoIndex /\ val = NoIndex /\ test = NoIndex
    /\ estimator = NoEstimator
    /\ predictor = Unbound
    /\ endpoints = {}
    /\ deletions = {}
    /\ reported = <<>>
    /\ lpc = "idle"
    \* no batch is encoded
    /\ nb = "none"
    /\ features = <<>> /\ labels = <<>> /\ columns = <<>>
    /\ examples = <<>>
    /\ max_length = 0
    /\ encoding = NoEncoding
    /\ decoded = NotDecoded
    /\ mapped = NoRows
    /\ epc = "idle"
    \* no endpoint serves the inference script
    /\ cuda = FALSE
    /\ request = NoRequest
    /\ tokenizer_model = NoModel
    /\ input_data = NoValue
    /\ prediction = NoPrediction
    /\ response = NoValue
    /\ fault = NoException
    /\ raised = NoException
    /\ trace = <<>>
    /\ ipc = "idle"
    /\ IdleFold

\* encoded_dataset["train"].save_to_disk(train_s3_uri); ...["test"]...(test_s3_uri)
OasUploadCell ==
    /\ UNCHANGED notOas
    /\ opc = "upload"
    /\ store' = save_to_disk(save_to_disk(store,
                    S3Uri("esm-2-benchmarking", "/data/train")),
                    S3Uri("esm-2-benchmarking", "/data/test"))
    /\ opc' = "metrics trn1"
    /\ UNCHANGED <<metric_definitions, hyperparameters, trn1_estimator, p4_estimator,
                   jobs, errors>>

\* metric_definitions = [...], the cell before each of the three job cells
OasMetricsCell ==
    /\ UNCHANGED notOas
    /\ opc \in {"metrics trn1", "metrics g5", "metrics p4d"}
    /\ metric_definitions' = OasMetricDefinitions
    /\ opc' = CASE opc = "metrics trn1" -> "trn1"
                [] opc = "metrics g5" -> "g5"
                [] opc = "metrics p4d" -> "p4d"
    /\ UNCHANGED <<store, hyperparameters, trn1_estimator, p4_estimator, jobs, errors>>

\* hyperparameters = {...}; trn1_estimator = PyTorch(...); trn1_estimator.fit(..., wait=False)
Trn1Cell ==
    /\ UNCHANGED notOas
    /\ opc = "trn1"
    /\ \E hp \in Edited(Trn1Hyperparameters) :
         LET est == PyTorch("esm-2-oas-trn1", "ml.trn1.32xlarge", 1,
                            "pytorch-training-neuronx:1.13.1-neuronx-py310-sdk2.12.0-ubuntu20.04",
                            hp, metric_definitions)
             r == Fit(est, OasInputs, Len(jobs) + 1, FALSE, "Completed")
         IN /\ hyperparameters' = hp
            /\ trn1_estimator' = est
            /\ jobs' = Submit(jobs, r.job)
            /\ errors' = IF r.raised = "none" THEN errors
                         ELSE Append(errors, [cell |-> "trn1", exc |-> r.raised])
    /\ opc' = "metrics g5"
    /\ UNCHANGED <<store, metric_definitions, p4_estimator>>

\* hyperparameters = {...}; p4_estimator = PyTorch(...); p4_estimator.fit(..., wait=True)
G5Cell ==
    /\ UNCHANGED notOas
    /\ opc = "g5"
    /\ \E hp \in Edited(G5Hyperparameters) : \E end \in TerminalStatuses :
         LET est == PyTorch("esm-2-oas-p4d", "ml.g5.2xlarge", 2,
                            "pytorch-training:1.13.1-gpu-py39-cu117-ubuntu20.04-sagemaker",
                            hp, metric_definitions)
             r == Fit(est, OasInputs, Len(jobs) + 1, TRUE, end)
         IN /\ hyperparameters' = hp
            /\ p4_estimator' = est
            /\ jobs' = Submit(jobs, r.job)
            /\ errors' = IF r.raised = "none" THEN errors
                         ELSE Append(errors, [cell |-> "g5", exc |-> r.raised])
    /\ opc' = "metrics p4d"
    /\ UNCHANGED <<store, metric_definitions, trn1_estimator>>

\* hyperparameters = {...}; p4_estimator = PyTorch(...); p4_estimator.fit(..., wait=False)
P4dCell ==
    /\ UNCHANGED notOas
    /\ opc = "p4d"
    /\ \E hp \in Edited(P4dHyperparameters) :
         LET est == PyTorch("esm-2-oas-p4d", "ml.p4d.24xlarge", 1,
                            "pytorch-training:1.13.1-gpu-py39-cu117-ubuntu20.04-sagemaker",
                            hp, metric_definitions)
             r == Fit(est, OasInputs, Len(jobs) + 1, FALSE, "Completed")
         IN /\ hyperparameters' = hp
            /\ p4_estimator' = est
            /\ jobs' = Submit(jobs, r.job)
            /\ errors' = IF r.raised = "none" THEN errors
                         ELSE Append(errors, [cell |-> "p4d", exc |-> r.raised])
    /\ opc' = "done"
    /\ UNCHANGED <<store, metric_definitions, trn1_estimator>>

\* the service runs a submitted job to its end
OasJobEnds ==
    /\ UNCHANGED notOas
    /\ opc # "idle"
    /\ \E j \in 1..Len(jobs) : \E end \in TerminalStatuses :
         /\ jobs[j].status = "InProgress"
         /\ jobs' = [jobs EXCEPT ![j].status = end]
    /\ UNCHANGED <<store, metric_definitions, hyperparameters, trn1_estimator,
                   p4_estimator, errors, opc>>

NextOas == OasUploadCell \/ OasMetricsCell \/ Trn1Cell \/ G5Cell \/ P4dCell \/ OasJobEnds

SpecOas == InitOas /\ [][NextOas]_vars

SpecEncode == InitEncode /\ [][NextEncode]_vars

SpecMap == InitMap /\ [][NextMap]_vars

----------------------------------------------------------------------------
(* Properties of the encoding step *)

\* the texts of the batch
TextOf == IF nb = "oas" THEN examples["text"] ELSE examples["Sequence"]
Encoded == epc \in {"encoded", "decoded"}

\* the number of pad tokens at the end of ids
RECURSIVE TrailingPads(_)
TrailingPads(ids) ==
    IF ids = <<>> \/ ids[Len(ids)] # pad_token_id THEN 0
    ELSE 1 + TrailingPads(SubSeq(ids, 1, Len(ids) - 1))

NumPads(ids) == Cardinality({i \in 1..Len(ids) : ids[i] = pad_token_id})
AllInVocab(text) == \A i \in 1..Len(text) : InVocab(text[i])

\* C1: every encoded record's token array has length exactly L, whatever the
\* length of its sequence (shorter than, equal to or longer than L).
C1_FixedLength ==
    Encoded => \A r \in Records : Len(encoding.input_ids[r]) = max_length

C1_Witness ==
    /\ epc = "encoded"
    /\ \E r1, r2 \in Records :
          /\ Len(TextOf[r1]) < max_length
          /\ Len(TextOf[r2]) > max_length

\* C2 as stated: a sequence of length n < L is followed by exactly L - n pad
\* tokens, none before the trailing run.
C2_Original ==
    Encoded => \A r \in Records :
        Len(TextOf[r]) < max_length =>
            /\ TrailingPads(encoding.input_ids[r]) = max_length - Len(TextOf[r])
            /\ NumPads(encoding.input_ids[r]) = TrailingPads(encoding.input_ids[r])

\* C2 amended: the array ends with exactly max(0, L - t - 2) pad tokens, t the
\* number of tokens of the sequence (its length when all its symbols are in
\* the vocabulary), the two other places being the start and end control
\* tokens; no pad token appears before that run.
C2_TrailingPads ==
    Encoded => \A r \in Records :
        /\ TrailingPads(encoding.input_ids[r])
              = Max(0, max_length - Len(tokenize(TextOf[r])) - 2)
        /\ AllInVocab(TextOf[r]) =>
              TrailingPads(encoding.input_ids[r]) = Max(0, max_length - Len(TextOf[r]) - 2)
        /\ NumPads(encoding.input_ids[r]) = TrailingPads(encoding.input_ids[r])

C2_Witness ==
    /\ epc = "encoded"
    /\ \E r \in Records : Len(TextOf[r]) = 1 /\ TrailingPads(encoding.input_ids[r]) = max_length - 3

\* C3: the attention mask has length L and is 1 exactly on the non-pad
\* positions of the token array, 0 exactly on the pad positions.
C3_MaskMarksReal ==
    Encoded => \A r \in Records :
        /\ Len(encoding.attention_mask[r]) = max_length
        /\ Len(encoding.attention_mask[r]) = Len(encoding.input_ids[r])
        /\ \A i \in 1..Len(encoding.attention_mask[r]) :
              /\ encoding.attention_mask[r][i] \in {0, 1}
              /\ encoding.attention_mask[r][i] = 1 <=> encoding.input_ids[r][i] # pad_token_id

C3_Witness ==
    /\ epc = "encoded"
    /\ \E r \in Records : \E i, j \in 1..max_length :
          encoding.attention_mask[r][i] = 1 /\ encoding.attention_mask[r][j] = 0

\* C4: the label vector of every record has length K = |labels| and its i-th
\* entry is the record's value for the i-th name of `labels`, whatever the
\* order of the label columns in the batch.
C4_LabelVector ==
    (Encoded /\ nb = "loc") => \A r \in Records :
        /\ Len(encoding.labels[r]) = Len(labels)
        /\ \A i \in 1..Len(labels) : encoding.labels[r][i] = examples[labels[i]][r]

C4_Witness ==
    /\ epc = "encoded" /\ nb = "loc"
    /\ columns # features
    /\ \E r \in Records : examples["Cytoplasm"][r] # examples["Nucleus"][r]

\* the decoded tokens without the pad tokens / without any control token
DropPads(toks) == Filter(toks, Range(toks) \ {"<pad>"})
DropControl(toks) == Filter(toks, Range(toks) \ {"<pad>", "<cls>", "<eos>"})

----------------------------------------------------------------------------
(* code/inference.py: the handlers of the ESMFold endpoint *)

Quote == "\""

\* Python values: a str is a list of characters, a list holds strs
PyStr(chars) == [type |-> "str", chars |-> chars]
PyList(items) == [type |-> "list", items |-> items]

\* json.dumps of a str or of a list of strs
JsonString(chars) == <<Quote>> \o chars \o <<Quote>>

RECURSIVE JsonItems(_)
JsonItems(items) ==
    IF items = <<>> THEN <<>>
    ELSE IF Len(items) = 1 THEN JsonString(items[1])
    ELSE JsonString(items[1]) \o <<",", " ">> \o JsonItems(Tail(items))

JsonDumps(v) ==
    IF v.type = "str" THEN JsonString(v.chars)
    ELSE <<"[">> \o JsonItems(v.items) \o <<"]">>

\* json.loads, for documents that are a string or an array of strings
IsJsonString(b) ==
    /\ Len(b) >= 2
    /\ b[1] = Quote /\ b[Len(b)] = Quote
    /\ \A i \in 2..(Len(b) - 1) : b[i] # Quote

RECURSIVE SplitItems(_, _, _)
\* the items of the inside of an array, cut at the commas outside strings
SplitItems(b, cur, inString) ==
    IF b = <<>> THEN <<cur>>
    ELSE LET c == Head(b)
         IN IF c = Quote THEN SplitItems(Tail(b), Append(cur, c), ~inString)
            ELSE IF c = "," /\ ~inString THEN <<cur>> \o SplitItems(Tail(b), <<>>, FALSE)
            ELSE IF c = " " /\ ~inString THEN SplitItems(Tail(b), cur, inString)
            ELSE SplitItems(Tail(b), Append(cur, c), inString)

JSONDecodeError == [type |-> "JSONDecodeError", msg |-> "Expecting value", arg |-> ""]

JsonLoads(b) ==
    IF IsJsonString(b)
    THEN [value |-> PyStr(SubSeq(b, 2, Len(b) - 1)), raised |-> NoException]
    ELSE IF Len(b) >= 2 /\ b[1] = "[" /\ b[Len(b)] = "]"
    THEN LET inner == SubSeq(b, 2, Len(b) - 1)
             items == IF inner = <<>> THEN <<>> ELSE SplitItems(inner, <<>>, FALSE)
         IN IF \A i \in 1..Len(items) : IsJsonString(items[i])
            THEN [value |-> PyList([i \in 1..Len(items) |->
                                      SubSeq(items[i], 2, Len(items[i]) - 1)]),
                  raised |-> NoException]
            ELSE [value |-> NoValue, raised |-> JSONDecodeError]
    ELSE [value |-> NoValue, raised |-> JSONDecodeError]

\* the events of a handler: library calls, log entries, and how it exits
Call(what) == [ev |-> "call", what |-> what, exc |-> NoException]
Printed(what) == [ev |-> "print", what |-> what, exc |-> NoException]
TracebackPrinted(e) == [ev |-> "traceback", what |-> "traceback.print_exc", exc |-> e]
Raise(e) == [ev |-> "raise", what |-> "raise", exc |-> e]
Return == [ev |-> "return", what |-> "return", exc |-> NoException]

\* except Exception as e: traceback.print_exc(); raise e
\* the events of the handler, and the exception its caller sees
ExceptMutWraps(e) ==
    [events |-> <<TracebackPrinted(e),
                  Raise([type |-> "RuntimeError", msg |-> "handler failed", arg |-> ""])>>,
     raised |-> [type |-> "RuntimeError", msg |-> "handler failed", arg |-> ""]]
ExceptReraise(e) == [events |-> <<TracebackPrinted(e), Raise(e)>>, raised |-> e]

\* what loading the model artifact can fail with
LoadFaults ==
    { NoException,
      [type |-> "OSError", msg |-> "no file named config.json", arg |-> "esmfold_v1"],
      [type |-> "RuntimeError", msg |-> "CUDA out of memory", arg |-> ""] }

\* what running the model on a batch can fail with
InferFaults ==
    { NoException,
      [type |-> "RuntimeError", msg |-> "CUDA out of memory", arg |-> ""] }

\* model_fn(model_dir)
model_fn(f, cuda_available) ==
    IF f = NoException
    THEN [returned |->
            [device |-> IF cuda_available THEN "cuda" ELSE "cpu",
             esm_dtype |-> IF cuda_available THEN "half" ELSE "float",
             allow_tf32 |-> IF cuda_available THEN "True" ELSE "(not set)",
             chunk_size |-> 64],
          events |-> <<Call("from_pretrained"), Return>>,
          raised |-> NoException]
    ELSE [returned |-> NoModel,
          events |-> <<Call("from_pretrained")>> \o ExceptReraise(f).events,
          raised |-> ExceptReraise(f).raised]

UnsupportedContentType(t) ==
    [type |-> "ValueError", msg |-> "Unsupported content type: {}", arg |-> t]

\* input_fn(request_body, request_content_type)
input_fnMutDefaultsToCsv(request_body, request_content_type) ==
    IF request_content_type = "application/json"
    THEN [returned |-> JsonLoads(request_body).value,
          events |-> <<Printed("request_content_type"), Return>>,
          raised |-> JsonLoads(request_body).raised]
    ELSE [returned |-> PyStr(request_body),
          events |-> <<Printed("request_content_type"), Printed("sequence"), Return>>,
          raised |-> NoException]
input_fnMutDecodesCsv(request_body, request_content_type) ==
    IF request_content_type \in {"text/csv", "application/json"}
    THEN IF JsonLoads(request_body).raised = NoException
         THEN [returned |-> JsonLoads(request_body).value,
               events |-> <<Printed("request_content_type"), Printed("sequence"), Return>>,
               raised |-> NoException]
         ELSE [returned |-> NoValue,
               events |-> <<Printed("request_content_type"),
                            Raise(JsonLoads(request_body).raised)>>,
               raised |-> JsonLoads(request_body).raised]
    ELSE [returned |-> NoValue,
          events |-> <<Printed("request_content_type"),
                       Raise(UnsupportedContentType(request_content_type))>>,
          raised |-> UnsupportedContentType(request_content_type)]
input_fn(request_body, request_content_type) ==
    IF request_content_type = "text/csv"
    THEN [returned |-> PyStr(request_body),
          events |-> <<Printed("request_content_type"), Printed("sequence"), Return>>,
          raised |-> NoException]
    ELSE IF request_content_type = "application/json"
    THEN IF JsonLoads(request_body).raised = NoException
         THEN [returned |-> JsonLoads(request_body).value,
               events |-> <<Printed("request_content_type"), Printed("sequence"), Return>>,
               raised |-> NoException]
         ELSE [returned |-> NoValue,
               events |-> <<Printed("request_content_type"),
                            Raise(JsonLoads(request_body).raised)>>,
               raised |-> JsonLoads(request_body).raised]
    ELSE [returned |-> NoValue,
          events |-> <<Printed("request_content_type"),
                       Raise(UnsupportedContentType(request_content_type))>>,
          raised |-> UnsupportedContentType(request_content_type)]

\* input_fn(request_body): request_content_type takes its default, "text/csv"
input_fn_default(request_body) == input_fn(request_body, "text/csv")

\* esm_tokenizer(input_data, return_tensors="pt", add_special_tokens=False):
\* the ids of each sequence; sequences of unequal length make no tensor
TokenIds(chars) == [i \in 1..Len(tokenize(chars)) |-> convert_token_to_id(tokenize(chars)[i])]

TensorError ==
    [type |-> "ValueError", msg |-> "Unable to create tensor", arg |-> "padding=True"]

TokenizeBatch(data) ==
    LET texts == IF data.type = "str" THEN <<data.chars>> ELSE data.items
        ids == [i \in 1..Len(texts) |-> TokenIds(texts[i])]
    IN IF \E i, j \in 1..Len(ids) : Len(ids[i]) # Len(ids[j])
       THEN [ids |-> <<>>, raised |-> TensorError]
       ELSE [ids |-> ids, raised |-> NoException]

\* the arithmetic the model's configuration gives the forward pass, which the
\* predicted atom positions depend on: the language model in half precision
\* with TF32 matrix products on a GPU, in single precision on a CPU (where
\* the TF32 switch of the CUDA backend has no effect)
Arithmetic(tm) ==
    IF tm.device = "cuda"
    THEN (IF tm.esm_dtype = "half"
          THEN (IF tm.allow_tf32 = "False" THEN "xyz float16" ELSE "xyz float16 tf32")
          ELSE (IF tm.allow_tf32 = "False" THEN "xyz float32" ELSE "xyz float32 tf32"))
    ELSE (IF tm.esm_dtype = "half" THEN "xyz float16" ELSE "xyz float32")

\* predict_fn(input_data, tokenizer_model)
predict_fn(data, tm, f) ==
    LET tok == TokenizeBatch(data)
        e == IF tok.raised # NoException THEN tok.raised ELSE f
    IN IF e = NoException
       THEN [returned |->
               [aatype |-> tok.ids,
                residue_index |-> [i \in 1..Len(tok.ids) |->
                                     [k \in 1..Len(tok.ids[i]) |-> k - 1]],
                positions |-> [i \in 1..Len(tok.ids) |-> Arithmetic(tm)]],
             events |-> <<Call("esm_tokenizer"), Call("esm_model"), Return>>,
             raised |-> NoException]
       ELSE [returned |-> NoPrediction,
             events |-> (IF tok.raised # NoException THEN <<Call("esm_tokenizer")>>
                         ELSE <<Call("esm_tokenizer"), Call("esm_model")>>)
                        \o ExceptReraise(e).events,
             raised |-> ExceptReraise(e).raised]

\* to_pdb(pred): per residue a line "ATOM <residue> <residue index>" and the
\* atom positions
PdbLines ==
    <<
      <<"ATOM UNK 0", "ATOM UNK 1", "ATOM UNK 2", "ATOM UNK 3", "ATOM UNK 4", "ATOM UNK 5", "ATOM UNK 6", "ATOM UNK 7", "ATOM UNK 8", "ATOM UNK 9">>,
      <<"ATOM LEU 0", "ATOM LEU 1", "ATOM LEU 2", "ATOM LEU 3", "ATOM LEU 4", "ATOM LEU 5", "ATOM LEU 6", "ATOM LEU 7", "ATOM LEU 8", "ATOM LEU 9">>,
      <<"ATOM ALA 0", "ATOM ALA 1", "ATOM ALA 2", "ATOM ALA 3", "ATOM ALA 4", "ATOM ALA 5", "ATOM ALA 6", "ATOM ALA 7", "ATOM ALA 8", "ATOM ALA 9">>,
      <<"ATOM GLY 0", "ATOM GLY 1", "ATOM GLY 2", "ATOM GLY 3", "ATOM GLY 4", "ATOM GLY 5", "ATOM GLY 6", "ATOM GLY 7", "ATOM GLY 8", "ATOM GLY 9">>,
      <<"ATOM VAL 0", "ATOM VAL 1", "ATOM VAL 2", "ATOM VAL 3", "ATOM VAL 4", "ATOM VAL 5", "ATOM VAL 6", "ATOM VAL 7", "ATOM VAL 8", "ATOM VAL 9">>
    >>
to_pdb(aatype, resid, positions) ==
    [k \in 1..(2 * Len(aatype)) |->
       IF k % 2 = 1 THEN PdbLines[aatype[(k + 1) \div 2] - 2][resid[(k + 1) \div 2] + 1]
       ELSE positions]

\* the list pdbs of output_fn: resid = outputs["residue_index"][i] + 1
PdbsMutNoShift(outputs) ==
    [i \in 1..Len(outputs.aatype) |->
       to_pdb(outputs.aatype[i], outputs.residue_index[i], outputs.positions[i])]
Pdbs(outputs) ==
    [i \in 1..Len(outputs.aatype) |->
       to_pdb(outputs.aatype[i],
              [k \in 1..Len(outputs.residue_index[i]) |-> outputs.residue_index[i][k] + 1],
              outputs.positions[i])]

\* output_fn(outputs, response_content_type)
output_fn(outputs, response_content_type) ==
    LET pdbs == Pdbs(outputs)
    IN IF response_content_type = "text/csv"
       THEN [returned |-> PyList(pdbs),
             events |-> <<Call("atom14_to_atom37"), Call("to_pdb"), Return>>,
             raised |-> NoException]
       ELSE IF response_content_type = "application/json"
       THEN [returned |-> PyStr(JsonDumps(PyList(pdbs))),
             events |-> <<Call("atom14_to_atom37"), Call("to_pdb"), Return>>,
             raised |-> NoException]
       ELSE [returned |-> NoValue,
             events |-> <<Call("atom14_to_atom37"), Call("to_pdb"),
                          Raise(UnsupportedContentType(response_content_type))>>,
             raised |-> UnsupportedContentType(response_content_type)]

SupportedTypes == {"text/csv", "application/json"}
ContentTypes == SupportedTypes \cup {"text/plain", "application/x-npy"}

\* the sequences sent to the endpoint, and the bodies that carry them
RequestSequences == {<<"A">>, <<"G">>, <<"A", "G">>}
Bodies ==
    RequestSequences
      \cup {JsonDumps(PyStr(q)) : q \in RequestSequences}
      \cup {JsonDumps(PyList(<<q>>)) : q \in RequestSequences}
      \cup {JsonDumps(PyList(<<q1, q2>>)) : q1 \in RequestSequences, q2 \in RequestSequences}
      \cup {<<Quote>> \o q : q \in RequestSequences}

InitInfer ==
    /\ cuda \in BOOLEAN
    /\ request \in [body : Bodies, content_type : ContentTypes, accept : ContentTypes]
    /\ tokenizer_model = NoModel
    /\ input_data = NoValue
    /\ prediction = NoPrediction
    /\ response = NoValue
    /\ fault = NoException
    /\ raised = NoException
    /\ trace = <<>>
    /\ ipc = "model_fn"
    \* no batch is encoded
    /\ nb = "none"
    /\ features = <<>> /\ labels = <<>> /\ columns = <<>>
    /\ examples = <<>>
    /\ max_length = 0
    /\ encoding = NoEncoding
    /\ decoded = NotDecoded
    /\ mapped = NoRows
    /\ epc = "idle"
    /\ IdleOas
    /\ IdleFold
    \* the localization notebook is not run
    /\ source = <<>>
    /\ df = NoIndex /\ train = NoIndex /\ val = NoIndex /\ test = NoIndex
    /\ store = {}
    /\ metric_definitions = NoMetricDefinitions
    /\ hyperparameters = NoHyperparameters
    /\ estimator = NoEstimator
    /\ jobs = <<>>
    /\ predictor = Unbound
    /\ endpoints = {}
    /\ deletions = {}
    /\ errors = <<>>
    /\ reported = <<>>
    /\ lpc = "idle"

\* the container loads the model: model_fn(model_dir)
ModelFn ==
    /\ UNCHANGED notInfer
    /\ ipc = "model_fn"
    /\ \E f \in LoadFaults :
         /\ fault' = f
         /\ tokenizer_model' = model_fn(f, cuda).returned
         /\ raised' = model_fn(f, cuda).raised
         /\ trace' = model_fn(f, cuda).events
         /\ ipc' = IF model_fn(f, cuda).raised = NoException
                   THEN "input_fn" ELSE "model_fn failed"
    /\ UNCHANGED <<cuda, request, input_data, prediction, response>>

\* a request arrives: input_fn(request_body, request_content_type)
InputFn ==
    /\ UNCHANGED notInfer
    /\ ipc = "input_fn"
    /\ LET r == input_fn(request.body, request.content_type)
       IN /\ input_data' = r.returned
          /\ fault' = NoException
          /\ raised' = r.raised
          /\ trace' = r.events
          /\ ipc' = IF r.raised = NoException THEN "predict_fn" ELSE "input_fn failed"
    /\ UNCHANGED <<cuda, request, tokenizer_model, prediction, response>>

\* predict_fn(input_data, tokenizer_model)
PredictFn ==
    /\ UNCHANGED notInfer
    /\ ipc = "predict_fn"
    /\ \E f \in InferFaults :
         LET r == predict_fn(input_data, tokenizer_model, f)
         IN /\ fault' = IF TokenizeBatch(input_data).raised # NoException
                        THEN TokenizeBatch(input_data).raised ELSE f
            /\ prediction' = r.returned
            /\ raised' = r.raised
            /\ trace' = r.events
            /\ ipc' = IF r.raised = NoException THEN "output_fn" ELSE "predict_fn failed"
    /\ UNCHANGED <<cuda, request, tokenizer_model, input_data, response>>

\* output_fn(outputs, response_content_type)
OutputFn ==
    /\ UNCHANGED notInfer
    /\ ipc = "output_fn"
    /\ LET r == output_fn(prediction, request.accept)
       IN /\ response' = r.returned
          /\ fault' = NoException
          /\ raised' = r.raised
          /\ trace' = r.events
          /\ ipc' = IF r.raised = NoException THEN "responded" ELSE "output_fn failed"
    /\ UNCHANGED <<cuda, request, tokenizer_model, input_data, prediction>>

NextInfer == ModelFn \/ InputFn \/ PredictFn \/ OutputFn

----------------------------------------------------------------------------
(* The structure-prediction notebook: its cells, run in order *)

\* the configuration the notebook gives esmfold: half precision and TF32 on a
\* GPU, single precision and no TF32 on a CPU; set_chunk_size(64) on both
NotebookModel(cuda_available) ==
    [device |-> IF cuda_available THEN "cuda" ELSE "cpu",
     esm_dtype |-> IF cuda_available THEN "half" ELSE "float",
     allow_tf32 |-> IF cuda_available THEN "True" ELSE "False",
     chunk_size |-> 64]

\* atoms_to_pdb(target_chain): the residues of the chain with the measured
\* atom positions
atoms_to_pdb(chain) == to_pdb(TokenIds(chain), [k \in 1..Len(chain) |-> k], "xyz x-ray")

\* model.infer_pdb(experimental_sequence): the residues of the sequence with
\* the positions the configured model predicts
infer_pdb(seq, tm) == to_pdb(TokenIds(seq), [k \in 1..Len(seq) |-> k], Arithmetic(tm))

\* with open(path, "w") as f: f.write(text)
write(fs, path, text) == With(fs, path, text)

\* the scores the alignment tool can report for two structures that differ,
\* in hundredths
Scores == {0, 40, 100}

\* a structure file the alignment tool cannot read: none, an empty one, or
\* one with a residue that has no atom positions
Malformed(fs, path) ==
    \/ path \notin DOMAIN fs
    \/ Len(fs[path]) = 0
    \/ Len(fs[path]) % 2 # 0

\* tmscore(pdb_a, pdb_b, out): one run of the external tool, which aligns the
\* two structures, reports the score and writes the superimposed structure.
\* It fails with an ExternalToolError when the tool is not installed or a
\* file cannot be read; nothing is retried and nothing is computed locally.
tmscoreMutIdenticalAsOthers(fs, tool_state, pdb_a, pdb_b, out, reported_score) ==
    IF tool_state # "available" \/ Malformed(fs, pdb_a) \/ Malformed(fs, pdb_b)
    THEN [score |-> NoScore, raised |-> "ExternalToolError", files |-> fs, runs |-> 1]
    ELSE [score |-> reported_score, raised |-> "none",
          files |-> write(fs, out, fs[pdb_a] \o fs[pdb_b]), runs |-> 1]
tmscoreMutFallsBack(fs, tool_state, pdb_a, pdb_b, out, reported_score) ==
    IF Malformed(fs, pdb_a) \/ Malformed(fs, pdb_b)
    THEN [score |-> NoScore, raised |-> "ExternalToolError", files |-> fs, runs |-> 1]
    ELSE [score |-> IF fs[pdb_a] = fs[pdb_b] THEN 100 ELSE reported_score,
          raised |-> "none",
          files |-> write(fs, out, fs[pdb_a] \o fs[pdb_b]),
          runs |-> IF tool_state # "available" THEN 2 ELSE 1]
tmscore(fs, tool_state, pdb_a, pdb_b, out, reported_score) ==
    IF tool_state # "available" \/ Malformed(fs, pdb_a) \/ Malformed(fs, pdb_b)
    THEN [score |-> NoScore, raised |-> "ExternalToolError", files |-> fs, runs |-> 1]
    ELSE [score |-> IF fs[pdb_a] = fs[pdb_b] THEN 100 ELSE reported_score,
          raised |-> "none",
          files |-> write(fs, out, fs[pdb_a] \o fs[pdb_b]), runs |-> 1]

\* one call of tmscore and what the cell keeps of it
Invocation(fs, tool_state, pdb_a, pdb_b, out, reported_score) ==
    [pdb_a |-> pdb_a, pdb_b |-> pdb_b, out |-> out,
     files |-> fs,
     tool |-> tool_state,
     runs |-> tmscore(fs, tool_state, pdb_a, pdb_b, out, reported_score).runs,
     raised |-> tmscore(fs, tool_state, pdb_a, pdb_b, out, reported_score).raised,
     score |-> tmscore(fs, tool_state, pdb_a, pdb_b, out, reported_score).score]

\* predictor.predict(data): the body is the JSON of the data, sent and
\* accepted as application/json; the container runs input_fn, predict_fn and
\* output_fn; the JSON of the response is decoded
Predict(data, tm, f) ==
    LET r1 == input_fn(JsonDumps(data), "application/json")
        r2 == predict_fn(r1.returned, tm, f)
        r3 == output_fn(r2.returned, "application/json")
    IN IF r1.raised # NoException THEN [returned |-> NoValue, raised |-> "ModelError"]
       ELSE IF r2.raised # NoException THEN [returned |-> NoValue, raised |-> "ModelError"]
       ELSE IF r3.raised # NoException THEN [returned |-> NoValue, raised |-> "ModelError"]
       ELSE [returned |-> JsonLoads(r3.returned.chars).value, raised |-> "none"]

InitFold ==
    /\ experimental_sequence = <<>>
    /\ files = NoFiles
    /\ tool \in {"available", "missing"}
    /\ nb_cuda \in BOOLEAN
    /\ cuda \in BOOLEAN
    /\ model = NoModel
    /\ tokenizer_model = NoModel
    /\ notebook_prediction = NoPdb
    /\ endpoint_prediction = NoPdb
    /\ score = NoScore
    /\ invocations = <<>>
    /\ predictor = Unbound
    /\ endpoints = {}
    /\ deletions = {}
    /\ errors = <<>>
    /\ fpc = "extract"
    /\ IdleOas
    \* no batch is encoded
    /\ nb = "none"
    /\ features = <<>> /\ labels = <<>> /\ columns = <<>>
    /\ examples = <<>>
    /\ max_length = 0
    /\ encoding = NoEncoding
    /\ decoded = NotDecoded
    /\ mapped = NoRows
    /\ epc = "idle"
    \* the localization notebook is not run
    /\ source = <<>>
    /\ df = NoIndex /\ train = NoIndex /\ val = NoIndex /\ test = NoIndex
    /\ store = {}
    /\ metric_definitions = NoMetricDefinitions
    /\ hyperparameters = NoHyperparameters
    /\ estimator = NoEstimator
    /\ jobs = <<>>
    /\ reported = <<>>
    /\ lpc = "idle"
    \* no request is handled outside the notebook
    /\ request = NoRequest
    /\ input_data = NoValue
    /\ prediction = NoPrediction
    /\ response = NoValue
    /\ fault = NoException
    /\ raised = NoException
    /\ trace = <<>>
    /\ ipc = "idle"

\* target_chain = ...; f.write(atoms_to_pdb(target_chain));
\* experimental_sequence = get_aa_seq(target_chain)
ExtractCell ==
    /\ UNCHANGED notFold
    /\ fpc = "extract"
    /\ \E chain \in RequestSequences :
         /\ files' = write(files, "data/experimental.pdb", atoms_to_pdb(chain))
         /\ experimental_sequence' = chain
    /\ fpc' = "configure"
    /\ UNCHANGED <<tool, nb_cuda, cuda, model, tokenizer_model, notebook_prediction,
                   endpoint_prediction, score, invocations, predictor, endpoints, deletions, errors>>

\* model = EsmForProteinFolding.from_pretrained(...); the device cell
ConfigureCell ==
    /\ UNCHANGED notFold
    /\ fpc = "configure"
    /\ model' = NotebookModel(nb_cuda)
    /\ fpc' = "infer"
    /\ UNCHANGED <<experimental_sequence, files, tool, nb_cuda, cuda, tokenizer_model,
                   notebook_prediction, endpoint_prediction, score, invocations,
                   predictor, endpoints, deletions, errors>>

\* notebook_prediction = model.infer_pdb(experimental_sequence);
\* f.write(notebook_prediction)
InferCell ==
    /\ UNCHANGED notFold
    /\ fpc = "infer"
    /\ notebook_prediction' = infer_pdb(experimental_sequence, model)
    /\ files' = write(files, "data/prediction.pdb", infer_pdb(experimental_sequence, model))
    /\ fpc' = "tmscore"
    /\ UNCHANGED <<experimental_sequence, tool, nb_cuda, cuda, model, tokenizer_model,
                   endpoint_prediction, score, invocations, predictor, endpoints, deletions, errors>>

\* score = tmscore("data/experimental.pdb", "data/prediction.pdb", "data/superimposed.pdb")
TmscoreCell ==
    /\ UNCHANGED notFold
    /\ fpc = "tmscore"
    /\ \E reported_score \in Scores :
         LET r == tmscore(files, tool, "data/experimental.pdb", "data/prediction.pdb",
                          "data/superimposed.pdb", reported_score)
         IN /\ invocations' = Append(invocations,
                 Invocation(files, tool, "data/experimental.pdb", "data/prediction.pdb",
                            "data/superimposed.pdb", reported_score))
            /\ files' = r.files
            /\ score' = IF r.raised = "none" THEN r.score ELSE score
            /\ errors' = IF r.raised = "none" THEN errors
                         ELSE Append(errors, [cell |-> "tmscore", exc |-> r.raised])
    /\ fpc' = "deploy"
    /\ UNCHANGED <<experimental_sequence, tool, nb_cuda, cuda, model, tokenizer_model,
                   notebook_prediction, endpoint_prediction, predictor, endpoints, deletions>>

\* huggingface_model = HuggingFaceModel(...); predictor = huggingface_model.deploy(...):
\* the container of the endpoint loads the model with model_fn
FoldDeployCell ==
    /\ UNCHANGED notFold
    /\ fpc = "deploy"
    /\ \E f \in LoadFaults :
         /\ tokenizer_model' = model_fn(f, cuda).returned
         /\ predictor' = IF model_fn(f, cuda).raised = NoException
                         THEN "esmfold endpoint" ELSE predictor
         /\ endpoints' = IF model_fn(f, cuda).raised = NoException
                         THEN endpoints \cup {"esmfold endpoint"} ELSE endpoints
         /\ errors' = IF model_fn(f, cuda).raised = NoException THEN errors
                      ELSE Append(errors, [cell |-> "deploy",
                                           exc |-> "UnexpectedStatusException"])
    /\ fpc' = "predict"
    /\ UNCHANGED <<experimental_sequence, files, tool, nb_cuda, cuda, model,
                   notebook_prediction, endpoint_prediction, score, invocations,
                   deletions>>

\* endpoint_prediction = predictor.predict(experimental_sequence)[0]
FoldPredictCell ==
    /\ UNCHANGED notFold
    /\ fpc = "predict"
    /\ \E f \in InferFaults :
         LET r == Predict(PyStr(experimental_sequence), tokenizer_model, f)
             exc == IF predictor = Unbound THEN "NameError" ELSE r.raised
         IN /\ endpoint_prediction' = IF exc = "none" THEN r.returned.items[1]
                                      ELSE endpoint_prediction
            /\ errors' = IF exc = "none" THEN errors
                         ELSE Append(errors, [cell |-> "predict", exc |-> exc])
    /\ fpc' = "compare"
    /\ UNCHANGED <<experimental_sequence, files, tool, nb_cuda, cuda, model,
                   tokenizer_model, notebook_prediction, score, invocations,
                   predictor, endpoints, deletions>>

\* f.write(endpoint_prediction);
\* score = tmscore("data/prediction.pdb", "data/endpoint_prediction.pdb", "data/esm_superimposed.pdb")
CompareCell ==
    /\ UNCHANGED notFold
    /\ fpc = "compare"
    /\ \E reported_score \in Scores :
         LET written == write(files, "data/endpoint_prediction.pdb", endpoint_prediction)
             r == tmscore(written, tool, "data/prediction.pdb",
                          "data/endpoint_prediction.pdb", "data/esm_superimposed.pdb",
                          reported_score)
         IN IF endpoint_prediction = NoPdb
            THEN \* open(..., "w") has made the file when f.write raises
                 /\ errors' = Append(errors, [cell |-> "compare", exc |-> "NameError"])
                 /\ files' = write(files, "data/endpoint_prediction.pdb", <<>>)
                 /\ UNCHANGED <<invocations, score>>
            ELSE /\ invocations' = Append(invocations,
                      Invocation(written, tool, "data/prediction.pdb",
                                 "data/endpoint_prediction.pdb",
                                 "data/esm_superimposed.pdb", reported_score))
                 /\ files' = r.files
                 /\ score' = IF r.raised = "none" THEN r.score ELSE score
                 /\ errors' = IF r.raised = "none" THEN errors
                              ELSE Append(errors, [cell |-> "compare", exc |-> r.raised])
    /\ fpc' = "teardown"
    /\ UNCHANGED <<experimental_sequence, tool, nb_cuda, cuda, model, tokenizer_model,
                   notebook_prediction, endpoint_prediction, predictor, endpoints, deletions>>

\* the last cell: its four lines (try: predictor.delete_endpoint() / except:
\* pass) are comments, so running it does nothing
FoldTeardownCell ==
    /\ UNCHANGED notFold
    /\ fpc = "teardown"
    /\ fpc' = "done"
    /\ UNCHANGED <<experimental_sequence, files, tool, nb_cuda, cuda, model,
                   tokenizer_model, notebook_prediction, endpoint_prediction, score,
                   invocations, predictor, endpoints, deletions, errors>>

NextFold ==
    ExtractCell \/ ConfigureCell \/ InferCell \/ TmscoreCell \/ FoldDeployCell
       \/ FoldPredictCell \/ CompareCell \/ FoldTeardownCell

SpecFold == InitFold /\ [][NextFold]_vars

----------------------------------------------------------------------------
(* The localization notebook, its cells run in order *)

SpecLoc == InitLoc /\ [][NextLoc]_vars

----------------------------------------------------------------------------
(* The encoding of the localization records at their true lengths *)

\* def preprocess_data(examples, max_length=512)
DefaultMaxLength == 512

\* a sequence of n residues
Residues(n) == [i \in 1..n |-> all_tokens[5 + (i % 4)]]

\* lengths of sequences the filter of the split cell passes
FilteredLengths ==
    {n \in RowLengths \cup {MaxSequenceLength - 3, MaxSequenceLength - 2,
                            MaxSequenceLength - 1} :
       Between(n, MinSequenceLength, MaxSequenceLength)}

\* a batch of two filtered records given to dataset.map(preprocess_data)
InitTrim ==
    /\ nb = "loc"
    /\ features \in FeatureOrders
    /\ labels = LabelsOf(features)
    /\ columns = features
    /\ examples \in
         {[c \in Range(columns) |->
             CASE c = "Sequence" -> [r \in Records |-> Residues(n[r])]
               [] c = "Cytoplasm" -> cy
               [] c = "Nucleus" -> [r \in Records |-> 0]
               [] c = "Membrane" -> [r \in Records |-> 1]
               [] OTHER -> [r \in Records |-> "P0"]]
           : n \in [Records -> FilteredLengths], cy \in LabelValues}
    /\ max_length = DefaultMaxLength
    /\ encoding = NoEncoding
    /\ decoded = NotDecoded
    /\ mapped = NoRows
    /\ epc = "ready"
    /\ IdleOthers

NextTrim == PreprocessData \/ DecodeExample

SpecTrim == InitTrim /\ [][NextTrim]_vars

\* the split alone, on a larger csv
SpecSplit == InitSplit /\ [][SplitCell]_vars

SpecInfer == InitInfer /\ [][NextInfer]_vars

\* a run of one of the three notebooks, its cells in order
InitNotebooks == InitOas \/ InitLoc \/ InitFold

NextNotebooks == NextOas \/ NextLoc \/ NextFold

SpecNotebooks == InitNotebooks /\ [][NextNotebooks]_vars

\* a run of one of the two notebooks that submit training jobs, the
\* localization notebook on a csv all of whose rows pass the length filter
InitJobs ==
    \/ InitOas
    \/ /\ source \in [1..NumRows -> {MaxSequenceLength}]
       /\ LocStart

NextJobs == NextOas \/ NextLoc

SpecJobs == InitJobs /\ [][NextJobs]_vars

SplitDone == lpc \notin {"idle", "split"}

\* C6: after the length filter every record of train, validation and test has
\* a sequence length n with 100 <= n <= 512, both ends included, and no source
\* record with n < 100 or n > 512 is in any of the three.
C6_LengthWindow ==
    SplitDone =>
        /\ \A i \in train \cup val \cup test : 100 <= source[i] /\ source[i] <= 512
        /\ \A i \in DOMAIN source :
             (source[i] < 100 \/ source[i] > 512) => i \notin train \cup val \cup test
        /\ \A i \in DOMAIN source :
             source[i] \in {100, 512} => i \in train \cup val \cup test

C6_Witness ==
    /\ SplitDone
    /\ \E i, j, k \in DOMAIN source :
         /\ source[i] = 100 /\ i \in train
         /\ source[j] = 512 /\ j \in test \cup val
         /\ source[k] = 513

C9_TeardownSilent ==
    /\ \A e \in 1..Len(errors) : errors[e].cell # "teardown"
    /\ \A m \in 1..Len(reported) : reported[m].cell # "teardown"
    /\ \A pred \in {Unbound, "endpoint"} : \A outcome \in DeleteOutcomes :
         Teardown(pred, outcome) = "none"

C9_Witness ==
    /\ lpc = "done"
    /\ predictor = Unbound
    /\ \E e \in 1..Len(errors) : errors[e].cell = "deploy"
----------------------------------------------------------------------------
(* The inference script *)

InputFnDone == ipc \in {"input_fn failed", "predict_fn", "predict_fn failed",
                        "output_fn", "output_fn failed", "responded"}
OutputFnDone == ipc \in {"output_fn failed", "responded"}

\* C8: for a content type other than "text/csv" and "application/json",
\* input_fn and output_fn raise a ValueError naming the type and return
\* nothing; for the two supported types neither raises that error.
C8_UnsupportedTypeRaises ==
    /\ (InputFnDone /\ request.content_type \notin {"text/csv", "application/json"}) =>
          /\ ipc = "input_fn failed"
          /\ raised = [type |-> "ValueError", msg |-> "Unsupported content type: {}",
                       arg |-> request.content_type]
          /\ input_data = NoValue
    /\ (InputFnDone /\ request.content_type \in {"text/csv", "application/json"}) =>
          ~(ipc = "input_fn failed" /\ raised.msg = "Unsupported content type: {}")
    /\ (OutputFnDone /\ request.accept \notin {"text/csv", "application/json"}) =>
          /\ ipc = "output_fn failed"
          /\ raised = [type |-> "ValueError", msg |-> "Unsupported content type: {}",
                       arg |-> request.accept]
          /\ response = NoValue
    /\ (OutputFnDone /\ request.accept \in {"text/csv", "application/json"}) =>
          /\ ipc = "responded"
          /\ raised = NoException
          /\ response # NoValue

C8_Witness ==
    /\ ipc = "output_fn failed"
    /\ request.accept = "text/plain"
    /\ request.content_type = "application/json"

\* C10: when model loading in model_fn or inference in predict_fn fails with
\* an exception e, the handler prints the traceback and then raises e itself:
\* it returns nothing, raises no other error and calls nothing a second time.
C10_FailureReraised ==
    /\ ipc = "model_fn failed" =>
          /\ fault # NoException
          /\ raised = fault
          /\ tokenizer_model = NoModel
          /\ trace = <<Call("from_pretrained"), TracebackPrinted(fault), Raise(fault)>>
    /\ ipc = "predict_fn failed" =>
          /\ fault # NoException
          /\ raised = fault
          /\ prediction = NoPrediction
          /\ SubSeq(trace, Len(trace) - 1, Len(trace))
               = <<TracebackPrinted(fault), Raise(fault)>>
          /\ \A i, j \in 1..Len(trace) :
               (trace[i].ev = "call" /\ trace[j].ev = "call" /\ trace[i].what = trace[j].what)
                 => i = j
    /\ ipc \in {"input_fn", "output_fn"} => (fault = NoException /\ raised = NoException)

C10_Witness ==
    /\ ipc = "predict_fn failed"
    /\ fault.type = "RuntimeError"
    /\ tokenizer_model # NoModel

----------------------------------------------------------------------------
(* Properties of the domain-adaptation notebook *)

\* the configuration of a job: everything the service holds of it but its state
Configuration(job) ==
    [job_name |-> job.job_name,
     instance_type |-> job.instance_type,
     instance_count |-> job.instance_count,
     image |-> job.image,
     hyperparameters |-> job.hyperparameters,
     metric_definitions |-> job.metric_definitions,
     inputs |-> job.inputs]

\* C11 as stated: every training-job submission is fire-and-forget: when the
\* submitting cell returns, the job it submitted has not reached a terminal
\* state and the cell has raised nothing on its account.
C11_Original ==
    [][Len(jobs') > Len(jobs) =>
          /\ jobs'[Len(jobs')].status = "InProgress"
          /\ errors' = errors]_vars

\* C12: the configuration (hyperparameters, instance type and count, image,
\* metric definitions) of a submitted job is never changed by a later cell:
\* every step keeps every job already submitted, with its configuration, while
\* hyperparameters, metric_definitions and p4_estimator are bound anew.
C12_JobConfigurationKept ==
    [][/\ Len(jobs') >= Len(jobs)
       /\ \A j \in 1..Len(jobs) : Configuration(jobs'[j]) = Configuration(jobs[j])]_vars

C12_Witness ==
    /\ opc = "done"
    /\ Len(jobs) = 3
    /\ p4_estimator.instance_type = "ml.p4d.24xlarge"
    /\ jobs[2].instance_type = "ml.g5.2xlarge"
    /\ jobs[2].hyperparameters # hyperparameters
    /\ jobs[1].hyperparameters # hyperparameters
    /\ "unsupported_option" \in DOMAIN jobs[2].hyperparameters

----------------------------------------------------------------------------
(* Properties of dataset.map and of unknown symbols *)

\* C13: preprocessing is record-independent: however the batch is cut into
\* shards and in whatever order the workers process them, the row written for
\* a record is the row that preprocessing the whole batch at once gives it,
\* and the workers leave the label list and the maximum length as they were.
C13_RecordIndependent ==
    LET whole == MapFunction(examples)
    IN /\ epc = "map" =>
            \A r \in DOMAIN mapped : mapped[r].row = Row(whole, 1, r)
       /\ epc = "mapped" =>
            /\ encoding.input_ids = whole.input_ids
            /\ encoding.attention_mask = whole.attention_mask
            /\ encoding.labels = whole.labels
       /\ epc \in {"map", "mapped"} => labels = LabelsOf(features)

C13_Witness ==
    /\ epc = "mapped"
    /\ mapped[2].order = 0 /\ mapped[1].order = 1
    /\ Len(TextOf[1]) > Len(TextOf[2])
    /\ Len(TextOf[1]) < max_length - 2

\* the ids of text taken symbol by symbol: a symbol outside the vocabulary is
\* the unknown id
PerSymbol(text) ==
    [i \in 1..Len(text) |->
       IF InVocab(text[i])
       THEN (CHOOSE k \in 1..Len(all_tokens) : all_tokens[k] = text[i]) - 1
       ELSE unk_token_id]

\* PerSymbol with every maximal run of unknown ids cut down to one
RECURSIVE CollapseRuns(_)
CollapseRuns(ids) ==
    IF Len(ids) < 2 THEN ids
    ELSE IF ids[1] = unk_token_id /\ ids[2] = unk_token_id THEN CollapseRuns(Tail(ids))
    ELSE <<ids[1]>> \o CollapseRuns(Tail(ids))

\* the entries of an encoded array between <cls> and <eos>
Between_cls_eos(ids) ==
    LET e == CHOOSE k \in 2..Len(ids) :
                 ids[k] = eos_token_id /\ \A m \in 2..(k - 1) : ids[m] # eos_token_id
    IN SubSeq(ids, 2, e - 1)

\* C16 as stated: encoding never fails and each symbol outside the vocabulary
\* becomes one unknown id, the other symbols being encoded as usual.
C16_Original ==
    Encoded => \A r \in Records :
        /\ Len(encoding.input_ids[r]) = max_length
        /\ Between_cls_eos(encoding.input_ids[r])
             = SubSeq(PerSymbol(TextOf[r]), 1, Min(Len(TextOf[r]), max_length - 2))

\* C16 amended: encoding never fails; each maximal run of consecutive symbols
\* outside the vocabulary becomes one unknown id, and the symbols of the
\* vocabulary are encoded as usual.
C16_UnknownRunsToUnk ==
    Encoded => \A r \in Records :
        LET ids == CollapseRuns(PerSymbol(TextOf[r]))
        IN /\ Len(encoding.input_ids[r]) = max_length
           /\ encoding.input_ids[r][1] = cls_token_id
           /\ Between_cls_eos(encoding.input_ids[r])
                = SubSeq(ids, 1, Min(Len(ids), max_length - 2))

C16_Witness ==
    /\ epc = "encoded"
    /\ max_length = 4
    /\ \E r \in Records :
         /\ TextOf[r] = <<"A", "J", "J">>
         /\ encoding.input_ids[r] = <<cls_token_id, 5, unk_token_id, eos_token_id>>


----------------------------------------------------------------------------
(* The structure comparison of the structure-prediction notebook *)

\* the calls of tmscore that ran the tool on two files it could read
Scored(v) == v.raised = "none"

\* what makes a call of tmscore fail
ToolFails(v) ==
    v.tool # "available" \/ Malformed(v.files, v.pdb_a) \/ Malformed(v.files, v.pdb_b)

\* C14: the tmscore of two identical structure files is 1.0 (100 hundredths),
\* and every score a call of tmscore returns, and so the score the notebook
\* holds, lies between 0 and 1
C14_ScoreOfIdenticalIsOne ==
    /\ score = NoScore \/ score \in 0..100
    /\ \A i \in 1..Len(invocations) :
         Scored(invocations[i]) =>
           /\ invocations[i].score \in 0..100
           /\ invocations[i].files[invocations[i].pdb_a]
                = invocations[i].files[invocations[i].pdb_b]
              => invocations[i].score = 100

\* the endpoint's prediction is the notebook's, the two files are compared
\* and score 1.0, after the prediction scored less against the experiment
C14_Witness ==
    /\ fpc = "done"
    /\ Len(invocations) = 2
    /\ Scored(invocations[1]) /\ invocations[1].score = 40
    /\ Scored(invocations[2])
    /\ files["data/prediction.pdb"] = files["data/endpoint_prediction.pdb"]
    /\ score = 100

\* C15: a call of tmscore made while the tool is unavailable or on a
\* malformed input file fails with an ExternalToolError, returns no score,
\* writes no file and runs the tool once: no retry, no local computation.
\* The same holds of a call on the notebook's files after any of them
\* is emptied.
C15_ToolFailureRaises ==
    /\ \A i \in 1..Len(invocations) :
         ToolFails(invocations[i]) =>
           /\ invocations[i].raised = "ExternalToolError"
           /\ invocations[i].score = NoScore
           /\ invocations[i].runs = 1
           /\ \E e \in 1..Len(errors) : errors[e].exc = "ExternalToolError"
    /\ tool # "available" => score = NoScore
    /\ \A a \in DOMAIN files : \A b \in DOMAIN files : \A t \in {"available", "missing"} :
         \A damaged \in {write(files, a, <<>>), write(files, b, <<"HEADER">>)} :
           LET r == tmscore(damaged, t, a, b, "data/superimposed.pdb", 100)
           IN /\ r.raised = "ExternalToolError"
              /\ r.score = NoScore
              /\ r.files = damaged
              /\ r.runs = 1

\* the tool is not installed: both comparisons of the notebook fail, no score
\* is bound and no superimposed structure is written
C15_Witness ==
    /\ fpc = "done"
    /\ tool = "missing"
    /\ Len(invocations) = 2
    /\ invocations[1].raised = "ExternalToolError"
    /\ invocations[2].raised = "ExternalToolError"
    /\ score = NoScore
    /\ "data/superimposed.pdb" \notin DOMAIN files
    /\ "data/endpoint_prediction.pdb" \in DOMAIN files
    /\ Len(errors) = 2

\* C17: the prediction of the endpoint is the prediction of the notebook: the
\* two are computed with the same precision, the same TF32 setting and the
\* same chunk size whatever the availability of CUDA in the notebook and in
\* the container
C17_Original ==
    (fpc \in {"compare", "done"} /\ endpoint_prediction # NoPdb) =>
       /\ endpoint_prediction = notebook_prediction
       /\ tokenizer_model.esm_dtype = model.esm_dtype
       /\ tokenizer_model.allow_tf32 = model.allow_tf32
       /\ tokenizer_model.chunk_size = model.chunk_size


----------------------------------------------------------------------------
(* The order of the steps *)

\* C18: in the run of each notebook a training job is submitted with input
\* channels that have been uploaded, and tmscore is called on two structure
\* files that have been written
C18_WrittenBeforeRead ==
    /\ \A j \in 1..Len(jobs) : \A channel \in DOMAIN jobs[j].inputs :
         jobs[j].inputs[channel].s3_data \in store
    /\ \A i \in 1..Len(invocations) :
         /\ invocations[i].pdb_a \in DOMAIN invocations[i].files
         /\ invocations[i].pdb_b \in DOMAIN invocations[i].files
         /\ invocations[i].files[invocations[i].pdb_a] # <<>>
         /\ invocations[i].files[invocations[i].pdb_b] # <<>>

\* the three jobs of the domain-adaptation notebook are submitted, each on
\* the two partitions the upload cell has written
C18_Witness ==
    /\ opc = "done"
    /\ Len(jobs) = 3
    /\ \A j \in 1..3 : DOMAIN jobs[j].inputs = {"train", "test"}
    /\ S3Uri("esm-2-benchmarking", "/data/train") \in store
    /\ S3Uri("esm-2-benchmarking", "/data/test") \in store

\* C19: when output_fn raises the ValueError for an unsupported content type,
\* it has called neither atom14_to_atom37 nor to_pdb
C19_Original ==
    ipc = "output_fn failed" =>
       \A i \in 1..Len(trace) : trace[i].ev # "call"

----------------------------------------------------------------------------
(* The endpoints at the end of a run *)

\* C21: when the last cell of a notebook has run, the deletion of the
\* endpoint the run has created has been requested
C21_Original ==
    (lpc = "done" \/ fpc = "done") =>
       (predictor # Unbound => predictor \in deletions)


----------------------------------------------------------------------------
(* The split of the localization data set *)

\* the rows the length filter keeps
Filtered == {i \in DOMAIN source : 100 <= source[i] /\ source[i] <= 512}

\* C22: train, validation and test are pairwise disjoint, their union is the
\* set of filtered records, the size of train is 0.8 times the number of
\* filtered records rounded to an integer, and the size of validation is
\* half the number of the records left, rounded to an integer
C22_SplitIsPartition ==
    SplitDone =>
       /\ train \cap val = {} /\ train \cap test = {} /\ val \cap test = {}
       /\ train \cup val \cup test = Filtered
       /\ 10 * Cardinality(train) - 8 * Cardinality(Filtered) \in (0 - 5)..5
       /\ 2 * Cardinality(val) - Cardinality(Filtered \ train) \in (0 - 1)..1

\* eight records pass the filter: six in train, one in validation, one in test
C22_Witness ==
    /\ SplitDone
    /\ Cardinality(Filtered) = 8
    /\ Cardinality(train) = 6
    /\ Cardinality(val) = 1
    /\ Cardinality(test) = 1


----------------------------------------------------------------------------
(* The residues of the encoded localization records *)

\* C23: every residue of a record that passed the 100 to 512 length filter
\* is in the record's encoded array of length 512, in its place after <cls>
C23_Original ==
    (Encoded /\ nb = "loc" /\ max_length = 512) =>
       \A r \in Records :
          (100 <= Len(TextOf[r]) /\ Len(TextOf[r]) <= 512) =>
             /\ Len(encoding.input_ids[r]) = 512
             /\ \A i \in 1..Len(TextOf[r]) :
                  /\ i + 1 <= Len(encoding.input_ids[r])
                  /\ encoding.input_ids[r][i + 1] = PerSymbol(TextOf[r])[i]


----------------------------------------------------------------------------
(* The label list of the localization notebook *)

\* C24: the label list holds the columns other than ACC, Kingdom, Membrane
\* and Sequence, each once and in the order of the columns, and id2label and
\* label2id are inverse to each other between 0..K-1 and the label names
C24_LabelMapsInverse ==
    nb = "loc" =>
       /\ Range(labels) = Range(features) \ {"ACC", "Kingdom", "Membrane", "Sequence"}
       /\ \A i, j \in 1..Len(labels) : i # j => labels[i] # labels[j]
       /\ \A i, j \in 1..Len(labels) :
            i < j => \E a, b \in 1..Len(features) :
                        a < b /\ features[a] = labels[i] /\ features[b] = labels[j]
       /\ DOMAIN id2label(labels) = 0..(Len(labels) - 1)
       /\ DOMAIN label2id(labels) = Range(labels)
       /\ \A i \in 0..(Len(labels) - 1) : label2id(labels)[id2label(labels)[i]] = i
       /\ \A l \in Range(labels) : id2label(labels)[label2id(labels)[l]] = l

\* the columns come with Nucleus before Membrane and Cytoplasm: the labels
\* are Nucleus (0) and Cytoplasm (1), and the batch has been encoded with them
C24_Witness ==
    /\ nb = "loc"
    /\ Encoded
    /\ features = <<"ACC", "Sequence", "Nucleus", "Membrane", "Cytoplasm">>
    /\ labels = <<"Nucleus", "Cytoplasm">>
    /\ label2id(labels)["Cytoplasm"] = 1
    /\ id2label(labels)[0] = "Nucleus"


----------------------------------------------------------------------------
(* The hyperparameters and the encoded records *)

----------------------------------------------------------------------------
(* The uploaded partitions and the channels of the jobs *)

\* the last part of an S3 URI
Suffix(uri) == uri[Len(uri)]

\* C26: every channel of every submitted job points to a location a
\* partition was uploaded to, train to the train partition and test to the
\* test partition, and when the run of the notebook is over every uploaded
\* partition is the input of some submitted job
C26_Original ==
    /\ \A j \in 1..Len(jobs) :
         /\ \A channel \in DOMAIN jobs[j].inputs :
              jobs[j].inputs[channel].s3_data \in store
         /\ Suffix(jobs[j].inputs["train"].s3_data) = "/data/train"
         /\ Suffix(jobs[j].inputs["test"].s3_data) = "/data/test"
    /\ (lpc = "done" \/ opc = "done") =>
         \A uri \in store :
            \E j \in 1..Len(jobs) : \E channel \in DOMAIN jobs[j].inputs :
               jobs[j].inputs[channel].s3_data = uri


----------------------------------------------------------------------------
(* The metric definitions of the jobs *)

\* the number of capture groups of a pattern
CaptureGroups(regex) == Cardinality({k \in 1..Len(regex) : regex[k] = "("})

\* the characters of a pattern before its capture group
LiteralPrefix(regex) ==
    SubSeq(regex, 1, (CHOOSE k \in 1..Len(regex) :
                        regex[k] = "(" /\ \A m \in 1..(k - 1) : regex[m] # "(") - 1)

\* p occurs in text
Occurs(p, text) ==
    \E k \in 1..(Len(text) - Len(p) + 1) : SubSeq(text, k, k + Len(p) - 1) = p

\* the log text that identifies a metric: what its pattern spells out, and a value
LogText(regex) == LiteralPrefix(regex) \o <<"0", ".", "5", "e", "-", "3">>

\* a log text is attributed to the metrics whose pattern is found in it
AttributedTo(md, text) == {i \in 1..Len(md) : Occurs(LiteralPrefix(md[i].Regex), text)}

\* C27: in the metric definitions of a job that is submitted the names are
\* pairwise distinct, every pattern has one capture group, and no pattern's
\* literal prefix occurs in the log text of another metric of the list, so
\* that the log text of each metric is attributed to that metric alone
C27_MetricsAttributedOnce ==
    [][Len(jobs') > Len(jobs) =>
         LET md == jobs'[Len(jobs')].metric_definitions
             prefix == [i \in 1..Len(md) |-> LiteralPrefix(md[i].Regex)]
             text == [i \in 1..Len(md) |-> LogText(md[i].Regex)]
         IN /\ \A i, j \in 1..Len(md) : i # j => md[i].Name # md[j].Name
            /\ \A i \in 1..Len(md) : CaptureGroups(md[i].Regex) = 1
            /\ \A i, j \in 1..Len(md) : i # j => ~Occurs(prefix[i], text[j])
            /\ \A j \in 1..Len(md) : AttributedTo(md, text[j]) = {j}]_vars

\* the job of the localization notebook is submitted with its thirteen
\* metrics, train_loss ('loss') and eval_loss ('eval_loss') among them
C27_Witness ==
    /\ lpc = "done"
    /\ Len(jobs) = 1
    /\ Len(jobs[1].metric_definitions) = 13
    /\ jobs[1].metric_definitions[2].Name = "train_loss"
    /\ jobs[1].metric_definitions[7].Name = "eval_loss"
    /\ LiteralPrefix(jobs[1].metric_definitions[2].Regex)
         = <<"'", "l", "o", "s", "s", "'", ":", " ">>


----------------------------------------------------------------------------
(* The response of output_fn *)

\* the residue line of a PDB string for the k-th residue, counted from 1
ResidueLine(aa, k) == PdbLines[aa - 2][k + 1]

\* C28: when output_fn has returned, the list it returns for "text/csv" has
\* one PDB string for each sequence of the predicted batch, in the order of
\* the batch, with the residues of each numbered from 1, and what it returns
\* for "application/json" is a JSON document that decodes to that very list
C28_OneStructurePerSequence ==
    ipc = "responded" =>
       LET pdbs == IF request.accept = "text/csv" THEN response
                   ELSE JsonLoads(response.chars).value
       IN /\ request.accept = "application/json" =>
               /\ response.type = "str"
               /\ JsonLoads(response.chars).raised = NoException
               /\ response.chars = JsonDumps(output_fn(prediction, "text/csv").returned)
          /\ pdbs = output_fn(prediction, "text/csv").returned
          /\ pdbs.type = "list"
          /\ Len(pdbs.items) = Len(prediction.aatype)
          /\ \A i \in 1..Len(pdbs.items) :
               \A k \in 1..Len(prediction.aatype[i]) :
                  pdbs.items[i][2 * k - 1] = ResidueLine(prediction.aatype[i][k], k)

\* a batch of the sequences G and A is answered as JSON: the document
\* decodes to two structures, glycine first, each residue numbered 1
C28_Witness ==
    /\ ipc = "responded"
    /\ request.accept = "application/json"
    /\ input_data = PyList(<< <<"G">>, <<"A">> >>)
    /\ Len(JsonLoads(response.chars).value.items) = 2
    /\ JsonLoads(response.chars).value.items[1][1] = "ATOM GLY 1"
    /\ JsonLoads(response.chars).value.items[2][1] = "ATOM ALA 1"


----------------------------------------------------------------------------
(* The request as input_fn reads it *)

\* C29: for "text/csv" input_fn returns the request body as it is, as a call
\* that gives no content type does; for "application/json" it returns the
\* decoded body when the body is a JSON document; and what the handler
\* returned and raised is what input_fn gives for the body and the content
\* type of the request, whatever else the state holds
C29_InputFnReturnsBody ==
    InputFnDone =>
       /\ request.content_type = "text/csv" =>
            /\ input_data = PyStr(request.body)
            /\ input_fn_default(request.body).returned = input_data
            /\ input_fn_default(request.body).raised = NoException
       /\ (request.content_type = "application/json"
             /\ JsonLoads(request.body).raised = NoException) =>
            input_data = JsonLoads(request.body).value
       /\ input_data = input_fn(request.body, request.content_type).returned

\* a text/csv body that reads like a JSON string is returned with its quotes
C29_Witness ==
    /\ InputFnDone
    /\ request.content_type = "text/csv"
    /\ request.body = <<Quote, "A", Quote>>
    /\ input_data = PyStr(<<Quote, "A", Quote>>)
    /\ JsonLoads(request.body).value = PyStr(<<"A">>)

====
